---- MODULE Spec2Model ----
(***************************************************************************)
(* Campus lost & found: the claims API (routes/claims.js) over the claims  *)
(* and items tables.  Each request handler is a sequence of SQL statements *)
(* separated by awaits; one action of the model is one statement, or one   *)
(* middleware (authenticateToken, a multer upload), together with the      *)
(* synchronous code that follows it up to the next await or the response.  *)
(* Two requests may be in flight at once (Procs).  The answer evaluator's  *)
(* functions and the authenticateToken middleware are also run on their    *)
(* own (SpecEvaluator, SpecAuth).  Signup (SpecSignup), the triggers that  *)
(* keep the claim counters of items (SpecTriggers) and all the routes that *)
(* write, each behind its middleware (SpecCampus), have specifications of  *)
(* their own over the same tables.                                         *)
(***************************************************************************)
EXTENDS Integers, Naturals, Sequences, FiniteSets, TLC

\* ------------------------------------------------------------------------
\* Bounds and fixture
\* ------------------------------------------------------------------------

\* Number of requests served in one behaviour.  Histories that need more
\* (a claim submitted, approved, completed and then looked up) are those of
\* SpecOpenClaims, which starts from the tables two served submissions leave.
MaxRequests == 3

\* Users that hold a valid token (req.user.user_id).
Users == {1, 2, 3}

\* The administrator's account (role 'admin').
Admins == {4}

\* In-flight request slots: two concurrent requests.
Procs == {1, 2}

\* Uploaded files (req.file.filename) in the order their names are
\* generated, one for every request that can be served, and the absent
\* upload.
NoFile == "none"
\* an upload that multer's fileFilter or size limit refuses
BadFile == "refused"
FileNames == <<"f1", "f2", "f3", "f4">>
Files == {FileNames[i] : i \in 1..Len(FileNames)}
FileInputs == Files \cup {NoFile, BadFile}

\* SQL NULL
NULL == "NULL"

\* ------------------------------------------------------------------------
\* Strings are sequences of characters
\* ------------------------------------------------------------------------

\* String.prototype.toLowerCase on the characters that occur
LowerChar(c) ==
    CASE c = "A" -> "a"
      [] c = "B" -> "b"
      [] c = "L" -> "l"
      [] c = "U" -> "u"
      [] c = "E" -> "e"
      [] c = "P" -> "p"
      [] OTHER -> c

toLowerCase(s) == [i \in 1..Len(s) |-> LowerChar(s[i])]

IsSpace(c) == c = " "

RECURSIVE TrimStart(_)
TrimStart(s) ==
    IF s # <<>> /\ IsSpace(Head(s)) THEN TrimStart(Tail(s)) ELSE s

RECURSIVE TrimEnd(_)
TrimEnd(s) ==
    IF s # <<>> /\ IsSpace(s[Len(s)]) THEN TrimEnd(SubSeq(s, 1, Len(s) - 1)) ELSE s

\* String.prototype.trim
trim(s) == TrimEnd(TrimStart(s))

\* the minimum with the insertion case left out
MinWithoutInsertion(a, b, c) == IF a <= c THEN a ELSE c

\* Math.min of three
Min3(a, b, c) ==
    IF a <= b /\ a <= c THEN a ELSE IF b <= c THEN b ELSE c

\* One row of the matrix of getEditDistance: row i (for str2[i]) from row i-1.
\* Rows are sequences indexed 1..Len(str1)+1, entry j+1 holding matrix[i][j].
RECURSIVE FillRow(_, _, _, _, _)
FillRow(str1, ch, prev, cur, j) ==
    IF j > Len(str1) THEN cur
    ELSE LET cell == IF ch = str1[j]
                     THEN prev[j]
                     ELSE Min3(prev[j] + 1, cur[j] + 1, prev[j + 1] + 1)
         IN FillRow(str1, ch, prev, Append(cur, cell), j + 1)

RECURSIVE EditRows(_, _, _, _)
EditRows(str1, str2, prev, i) ==
    IF i > Len(str2) THEN prev
    ELSE EditRows(str1, str2, FillRow(str1, str2[i], prev, <<i>>, 1), i + 1)

\* getEditDistance(str1, str2): matrix[str2.length][str1.length]
getEditDistance(str1, str2) ==
    EditRows(str1, str2, [j \in 1..(Len(str1) + 1) |-> j - 1], 1)[Len(str1) + 1]

\* calculateSimilarity(str1, str2) as the fraction <<numerator, denominator>>
calculateSimilarity(str1, str2) ==
    IF str1 = str2 THEN <<1, 1>>
    ELSE LET longer  == IF Len(str1) > Len(str2) THEN str1 ELSE str2
             shorter == IF Len(str1) > Len(str2) THEN str2 ELSE str1
         IN IF Len(longer) = 0 THEN <<1, 1>>
            ELSE <<Len(longer) - getEditDistance(longer, shorter), Len(longer)>>

\* the threshold test written with >=
AtLeastThreshold(sim) == sim[1] * 10 >= 8 * sim[2]

\* similarity > 0.8
AboveThreshold(sim) == sim[1] * 10 > 8 * sim[2]

\* Math.ceil(n * k / 10) for the factors 0.8 and 0.6
CeilTenths(n, k) == (n * k + 9) \div 10

Max(a, b) == IF a >= b THEN a ELSE b


\* ------------------------------------------------------------------------
\* Fixture: the items on offer and the answers a claimant may send
\* ------------------------------------------------------------------------

\* items.verification_questions (JSON list of {question, answer})
Questions1 ==
    << [question |-> "colour", answer |-> <<"B", "l", "u", "e">>],
       [question |-> "what",   answer |-> <<"l", "a", "p", "t", "o", "p">>],
       [question |-> "tag",    answer |-> <<"x", "1">>] >>

\* An element null of the submitted array
NullAnswer == <<"null">>

\* req.body.verificationAnswers: absent, a non-array, or an array
AnsStrong  == << <<" ", "B", "L", "U", "E", " ">>,
                 <<"l", "a", "p", "t", "p", "p">>,
                 <<"x", "1">> >>
AnsPartial == << <<"b", "l", "u", "e">>,
                 <<"L", "a", "p", "t", "o", "p">>,
                 <<"x", "2">> >>
AnsWeak    == << <<"b", "l", "u", "x">>,
                 NullAnswer,
                 <<"x", "1">> >>
AnsOne     == << <<"B", "l", "u", "e">> >>

AnswerInputs ==
    { [kind |-> "missing", val |-> <<>>],
      [kind |-> "string",  val |-> <<>>],
      [kind |-> "array",   val |-> AnsStrong],
      [kind |-> "array",   val |-> AnsPartial],
      [kind |-> "array",   val |-> AnsWeak],
      [kind |-> "array",   val |-> AnsOne] }

\* the postings: item 1 is on offer, item 2 has been closed by its reporter;
\* requests may also name an item that does not exist
ItemIds == {1, 2}
ItemIdInputs == {1, 2, 3}

\* claim ids a request may name: the two claims the posting can receive
\* (a claim id names no row until that claim is inserted)
ClaimIdInputs == {1, 2}

\* req.body.reason of PUT /:id/reject
ReasonInputs == {NULL, "not mine"}

\* the two revisions of POST /api/claims
Variants == {"proof_gated", "auto_approve"}

ClaimStatuses ==
    {"pending_verification", "awaiting_proof", "proof_submitted",
     "approved", "rejected", "completed"}

\* ------------------------------------------------------------------------
\* The claim evaluator (inside router.post('/'))
\* ------------------------------------------------------------------------

\* (verificationAnswers[index] || '')
OrEmpty(a) == IF a = NullAnswer THEN <<>> ELSE a

\* the comparison of one stored answer with one submitted answer
IsCorrect(stored, submitted) ==
    LET correctAnswer == trim(toLowerCase(stored))
        userAnswer    == trim(toLowerCase(OrEmpty(submitted)))
    IN IF correctAnswer = userAnswer THEN TRUE
       ELSE IF Len(correctAnswer) > 3 /\ Len(userAnswer) > 3
            THEN AboveThreshold(calculateSimilarity(correctAnswer, userAnswer))
            ELSE FALSE

\* verificationAnswers[index]: undefined past the end of the array
ElementAt(answers, i) ==
    IF i \in DOMAIN answers THEN answers[i] ELSE NullAnswer

\* answerComparisons
Comparisons(questions, answers) ==
    [i \in 1..Len(questions) |->
        [question       |-> questions[i].question,
         correct_answer |-> questions[i].answer,
         user_answer    |-> ElementAt(answers, i),
         is_correct     |-> IsCorrect(questions[i].answer, ElementAt(answers, i)),
         similarity     |-> calculateSimilarity(
                               trim(toLowerCase(questions[i].answer)),
                               trim(toLowerCase(OrEmpty(ElementAt(answers, i)))))]]

RECURSIVE CountCorrect(_)
CountCorrect(cmp) ==
    IF cmp = <<>> THEN 0
    ELSE (IF Head(cmp).is_correct THEN 1 ELSE 0) + CountCorrect(Tail(cmp))

\* the required count without its minimum of two
RequiredCorrectNoMinimum(total) == CeilTenths(total, 8)

\* Math.max(2, Math.ceil(total * 0.8))
RequiredCorrect(total) == Max(2, CeilTenths(total, 8))

\* the aggregate decision
Decision(correct, total) ==
    IF correct >= RequiredCorrect(total) THEN "strong"
    ELSE IF correct >= CeilTenths(total, 6) THEN "partial"
    ELSE "weak"

\* the first branch left as it was before the change to require proof
ClaimStatusStrongApproved(correct, total) ==
    IF correct >= RequiredCorrect(total) THEN "approved"
    ELSE IF correct >= CeilTenths(total, 6) THEN "awaiting_proof"
    ELSE "pending_verification"

\* claimStatus of the revision that always asks for proof
ClaimStatusProofGated(correct, total) ==
    IF correct >= RequiredCorrect(total) THEN "awaiting_proof"
    ELSE IF correct >= CeilTenths(total, 6) THEN "awaiting_proof"
    ELSE "pending_verification"

\* claimStatus of the revision that approves a strong match at once
ClaimStatusAutoApprove(correct, total) ==
    IF correct >= RequiredCorrect(total) THEN "approved"
    ELSE IF correct >= CeilTenths(total, 6) THEN "awaiting_proof"
    ELSE "pending_verification"

ClaimStatusFor(v, correct, total) ==
    IF v = "proof_gated" THEN ClaimStatusProofGated(correct, total)
    ELSE ClaimStatusAutoApprove(correct, total)

RECURSIVE GCD(_, _)
GCD(a, b) == IF b = 0 THEN a ELSE GCD(b, a % b)

\* the quotients, in lowest terms, whose product with 100 is a half above
\* an integer and comes out just below it in double arithmetic
\* ((23 / 40) * 100 is 57.49999999999999); a quotient with denominator 8 is
\* exact, and no other quotient of integers is that close to a half
BelowHalf == {<<23, 40>>, <<29, 200>>, <<57, 200>>, <<113, 200>>}

\* Math.round((correct / total) * 100): halves go up
AccuracyPercentage(correct, total) ==
    LET g == GCD(correct, total)
        halfUp == (200 * correct + total) \div (2 * total)
    IN IF <<correct \div g, total \div g>> \in BelowHalf
       THEN halfUp - 1
       ELSE halfUp


\* ------------------------------------------------------------------------
\* authenticateToken (middleware/auth.js), in front of every claims route
\* ------------------------------------------------------------------------

\* users.user_id and users.email of the rows a token may name
AuthUserIds == {1, 2}
Emails == {"a@college.edu", "b@college.edu"}

\* a row of users as the middleware selects it, or no row
UserRows ==
    [email : Emails, is_verified : BOOLEAN]

\* no row of users has the id
NoUser == [absent |-> TRUE]

\* no token in the header
NoToken == [kind |-> "none"]

\* the users table: user_id -> row or NoUser; users.email is unique
UserTables ==
    {t \in [AuthUserIds -> UserRows \cup {NoUser}] :
        \A i \in AuthUserIds, j \in AuthUserIds :
            (i # j /\ t[i] # NoUser /\ t[j] # NoUser) => t[i].email # t[j].email}

\* what jwt.verify makes of the token: not a token of this server
\* (JsonWebTokenError), one of its tokens past its 7 days
\* (TokenExpiredError), or a payload {userId, email}
Tokens ==
    {[kind |-> "malformed", userId |-> 0, email |-> ""]}
    \cup [kind : {"expired", "valid"}, userId : AuthUserIds, email : Emails]

\* req.headers['authorization']: absent, 'Bearer' without a token, or
\* 'Bearer <token>'
NoHeader == [scheme |-> "none"]
BearerOnly == [scheme |-> "Bearer", token |-> NoToken]
AuthHeaders ==
    {NoHeader, BearerOnly} \cup {[scheme |-> "Bearer", token |-> t] : t \in Tokens}

\* authHeader && authHeader.split(' ')[1]
TokenOf(header) == IF header = NoHeader THEN NoToken ELSE header.token

\* res.status(st).json({success: false, error, code})
AuthFailure(st, error, code) ==
    [next |-> FALSE, status |-> st, error |-> error, code |-> code,
     user |-> NoUser]

\* req.user = user; next()
AuthPass(userId, row) ==
    [next |-> TRUE, status |-> 0, error |-> "", code |-> "",
     user |-> [user_id |-> userId, email |-> row.email,
               is_verified |-> row.is_verified]]

\* the middleware as it was before the e-mail comparison was added
authenticateTokenEarlier(header, users, lookup) ==
    LET token == TokenOf(header) IN
    IF token = NoToken
    THEN AuthFailure(401, "Access token required", "")
    ELSE IF token.kind = "expired"
    THEN AuthFailure(403, "Token has expired. Please log in again.",
                     "TOKEN_EXPIRED")
    ELSE IF token.kind = "malformed"
    THEN AuthFailure(403, "Invalid token. Please log in again.", "INVALID_TOKEN")
    ELSE IF lookup = "throws"
    THEN AuthFailure(500, "Token verification failed", "VERIFICATION_FAILED")
    ELSE IF users[token.userId] = NoUser
    THEN AuthFailure(401, "User account no longer exists. Please log in again.",
                     "USER_NOT_FOUND")
    ELSE IF ~users[token.userId].is_verified
    THEN AuthFailure(401, "Account not verified", "ACCOUNT_NOT_VERIFIED")
    ELSE AuthPass(token.userId, users[token.userId])

\* authenticateToken(req, res, next); lookup tells whether the SELECT on
\* users returns or throws
authenticateToken(header, users, lookup) ==
    LET token == TokenOf(header) IN
    IF token = NoToken
    THEN AuthFailure(401, "Access token required", "")
    ELSE IF token.kind = "expired"
    THEN AuthFailure(403, "Token has expired. Please log in again.",
                     "TOKEN_EXPIRED")
    ELSE IF token.kind = "malformed"
    THEN AuthFailure(403, "Invalid token. Please log in again.", "INVALID_TOKEN")
    ELSE IF lookup = "throws"
    THEN AuthFailure(500, "Token verification failed", "VERIFICATION_FAILED")
    ELSE IF users[token.userId] = NoUser
    THEN AuthFailure(401, "User account no longer exists. Please log in again.",
                     "USER_NOT_FOUND")
    ELSE IF ~users[token.userId].is_verified
    THEN AuthFailure(401, "Account not verified", "ACCOUNT_NOT_VERIFIED")
    ELSE IF token.email # users[token.userId].email
    THEN AuthFailure(401, "Token data mismatch. Please log in again.",
                     "TOKEN_MISMATCH")
    ELSE AuthPass(token.userId, users[token.userId])

\* ------------------------------------------------------------------------
\* State
\* ------------------------------------------------------------------------

VARIABLES
    variant,        \* which revision of POST /api/claims is deployed
    items,          \* table items: item_id -> row
    claims,         \* table claims: claim_id -> row
    next_claim_id,  \* AUTO_INCREMENT of claims.claim_id
    next_item_id,   \* AUTO_INCREMENT of items.item_id
    next_user_id,   \* AUTO_INCREMENT of users.user_id
    req,            \* per slot: the request in flight and its handler's position
    out,            \* the request served by the latest statement and the
                    \* response it sent (status 0: none sent yet)
    nreq,           \* requests begun so far
    call,           \* a function of the program called on its own: its
                    \* arguments and, once it has returned, its result
    users,          \* table users: user_id -> row, NoUser once deleted
    disk,           \* the files in public/documents
    uploads         \* files stored so far (each under a name of its own)

vars == <<variant, items, claims, next_claim_id, next_item_id,
          next_user_id, req, out, nreq, call, users, disk, uploads>>

\* no function is being called on its own
NoCall == [fn |-> "none"]

Idle == [op |-> "idle", pc |-> "idle", user |-> 0, id |-> 0,
         arg |-> NULL, loc |-> NULL]

NoBody == [kind |-> "none"]

NoOutput == [p |-> 0, op |-> "none", user |-> 0, id |-> 0, arg |-> NULL,
             status |-> 0, error |-> "", code |-> "", cause |-> "",
             body |-> NoBody]

\* the rows of the items table at start-up: an active posting of user 1
\* and a closed posting of user 3
InitItems ==
    [i \in ItemIds |->
        IF i = 1
        THEN [reporter_id |-> 1, status |-> "active", is_verified |-> TRUE,
              verification_questions |-> Questions1]
        ELSE [reporter_id |-> 3, status |-> "closed", is_verified |-> TRUE,
              verification_questions |-> Questions1]]

\* users.email and users.student_id of the accounts present at start-up
EmailOf(u) ==
    CASE u = 1 -> "u1@college.edu" [] u = 2 -> "u2@college.edu"
      [] u = 3 -> "u3@college.edu" [] OTHER -> "admin@college.edu"

StudentIdOf(u) ==
    CASE u = 1 -> "S1" [] u = 2 -> "S2" [] u = 3 -> "S3" [] OTHER -> "ADM001"

\* the rows of the users table at start-up: three verified students and
\* the administrator
InitUsers ==
    [u \in Users \cup Admins |->
        [student_id |-> StudentIdOf(u), email |-> EmailOf(u),
         student_id_card |-> NULL, is_verified |-> TRUE,
         role |-> IF u \in Admins THEN "admin" ELSE "student"]]

\* the Authorization header of a client that logged in as u at start-up:
\* generateToken signs {userId, email}
TokenFor(u) ==
    [scheme |-> "Bearer",
     token |-> [kind |-> "valid", userId |-> u, email |-> EmailOf(u)]]

\* a middleware that only verifies the token's signature and expiry
AuthenticatedByToken(u) == TRUE

\* authenticateToken in front of a route, with u's token: next() is called
Authenticated(u) == authenticateToken(TokenFor(u), users, "returns").next

Init ==
    /\ variant = "proof_gated"
    /\ items = InitItems
    /\ claims = <<>>
    /\ next_claim_id = 1
    /\ next_item_id = Cardinality(ItemIds) + 1
    /\ next_user_id = Cardinality(DOMAIN InitUsers) + 1
    /\ req = [p \in Procs |-> Idle]
    /\ out = NoOutput
    /\ nreq = 0
    /\ call = NoCall
    /\ users = InitUsers
    /\ disk = {}
    /\ uploads = 0

ClaimIds == DOMAIN claims

\* SELECT claim_id FROM claims WHERE item_id = ? AND claimant_id = ?
ExistingClaims(itemId, userId) ==
    {c \in ClaimIds : claims[c].item_id = itemId /\ claims[c].claimant_id = userId}

\* the claims table without its unique key: every INSERT is accepted
NoUniqueKey(itemId, userId) == TRUE

\* UNIQUE KEY unique_user_item_claim (item_id, claimant_id)
UniqueUserItemClaim(itemId, userId) == ExistingClaims(itemId, userId) = {}

\* the row INSERT INTO claims writes, with the column defaults of the table
NewClaimRow(itemId, userId, ownerId, claimStatus, cmp) ==
    [item_id |-> itemId,
     claimant_id |-> userId,
     item_owner_id |-> ownerId,
     claim_status |-> claimStatus,
     verification_answers |-> cmp,
     aadhar_proof |-> NULL,
     proof_verified |-> FALSE,
     admin_notes |-> NULL,
     contact_revealed |-> (claimStatus = "approved"),
     proof_submitted_at |-> FALSE,
     approved_at |-> (claimStatus = "approved"),
     completed_at |-> FALSE]

\* UPDATE claims SET ... WHERE claim_id = ?  (no row: nothing changes)
UpdateClaim(c, row) ==
    IF c \in ClaimIds THEN [claims EXCEPT ![c] = row] ELSE claims

\* UPDATE items SET status = ? WHERE item_id = ?
UpdateItemStatus(i, st) ==
    IF i \in DOMAIN items THEN [items EXCEPT ![i].status = st] ELSE items

\* a step of slot p that sends no response yet
Silent(p, r) ==
    [p |-> p, op |-> r.op, user |-> r.user, id |-> r.id, arg |-> r.arg,
     status |-> 0, error |-> "", code |-> "", cause |-> "", body |-> NoBody]

\* what a refused request is remembered by: for POST /api/claims the kind of
\* verificationAnswers and its length, for the other routes nothing
BodyShape(r) ==
    IF r.op = "post_claim"
    THEN [kind |-> r.arg.kind, n |-> Len(r.arg.val)]
    ELSE IF r.op = "signup" THEN r.arg
    ELSE NULL

\* res.status(st).json({success: false, error: msg}); cause is the error the
\* catch block logged, if any (the request body is not echoed)
Failure(p, r, st, msg, cause) ==
    [Silent(p, r) EXCEPT !.arg = BodyShape(r), !.status = st, !.error = msg,
                         !.cause = cause]

\* res.status(st).json({success: true, ...})
Success(p, r, st, body) ==
    [Silent(p, r) EXCEPT !.status = st, !.body = body]

\* a request arrives and takes the first free slot
Arrives(p) ==
    /\ req[p].op = "idle"
    /\ \A q \in Procs : q < p => req[q].op # "idle"
    /\ nreq < MaxRequests

\* slot p holds a request of u that authenticateToken has let through: the
\* next step of its route is taken, the upload middleware where the route
\* has one, the handler's first statement otherwise
Starts(p, u) ==
    /\ req[p].op = "authenticated"
    /\ req[p].user = u
    /\ nreq' = nreq

Request(op, u, id, arg) ==
    [op |-> op, pc |-> "start", user |-> u, id |-> id, arg |-> arg, loc |-> NULL]

\* the handler returns: the slot is free again
Respond(p, o) ==
    /\ req' = [req EXCEPT ![p] = Idle]
    /\ out' = o

\* the handler goes on to its next statement
Continue(p, r, pc, loc) ==
    /\ req' = [req EXCEPT ![p] = [r EXCEPT !.pc = pc, !.loc = loc]]
    /\ out' = Silent(p, r)


\* ------------------------------------------------------------------------
\* authenticateToken in front of every route but signup: its user lookup is
\* a statement of its own, and the route's handler runs after it
\* ------------------------------------------------------------------------

\* res.status(st).json({success: false, error: msg, code})
FailureCode(p, r, st, msg, code) ==
    [Silent(p, r) EXCEPT !.arg = BodyShape(r), !.status = st, !.error = msg,
                         !.code = code]

\* a request that carries u's token arrives and the middleware calls
\* next(); requireAdmin or the handler, which run in the same turn up to the
\* first statement, answer the request there
Refused(p, u) ==
    /\ Arrives(p)
    /\ Authenticated(u)
    /\ nreq' = nreq + 1

\* a request that carries u's token arrives and the middleware calls
\* next(): the request waits for its handler's first statement
Authenticate(p, u) ==
    /\ Arrives(p)
    /\ Authenticated(u)
    /\ nreq' = nreq + 1
    /\ req' = [req EXCEPT ![p] = Request("authenticated", u, 0, NULL)]
    /\ out' = Silent(p, Request("any", u, 0, NULL))
    /\ UNCHANGED <<variant, call, users, disk, uploads, items, claims,
                   next_claim_id, next_item_id, next_user_id>>

\* authenticateToken answers a request that carries u's token by itself:
\* no handler runs
AuthRejects(p, u, lookup) ==
    LET res == authenticateToken(TokenFor(u), users, lookup) IN
    /\ Arrives(p)
    /\ ~res.next
    /\ nreq' = nreq + 1
    /\ out' = FailureCode(p, Request("any", u, 0, NULL), res.status,
                          res.error, res.code)
    /\ UNCHANGED <<variant, call, users, disk, uploads, items, claims,
                   next_claim_id, next_item_id, next_user_id, req>>

\* requireAdmin: req.user.role === 'admin' (no statement changes a role and
\* no administrator's row is deleted, so the row read by the middleware and
\* the table agree on it)
IsAdmin(u) == users[u] # NoUser /\ users[u].role = "admin"

\* ------------------------------------------------------------------------
\* POST /api/claims
\* ------------------------------------------------------------------------

\* the item lookup without its status filter
ExistingItem(itemId) == itemId \in DOMAIN items

\* SELECT ... FROM items i JOIN users u ... WHERE i.item_id = ? AND i.status = 'active'
\* (the auto-approve revision adds AND i.is_verified = TRUE)
AvailableItem(itemId) ==
    /\ itemId \in DOMAIN items
    /\ items[itemId].status = "active"
    /\ (variant = "auto_approve" => items[itemId].is_verified)

\* the self-claim check left out
NeverOwnItem(itemId, u) == FALSE

\* item.item_owner_id === req.user.user_id
IsOwnItem(itemId, u) == items[itemId].reporter_id = u

\* body check, item lookup and the self-claim check
PostClaimSelectItem(p, u, itemId, answers) ==
    LET r == Request("post_claim", u, itemId, answers) IN
    /\ IF answers.kind = "missing" THEN Refused(p, u) ELSE Starts(p, u)
    /\ UNCHANGED <<variant, call, users, disk, uploads, items, claims, next_claim_id, next_item_id, next_user_id>>
    /\ IF answers.kind = "missing"
       THEN Respond(p, Failure(p, r, 400,
                "Item ID and verification answers are required", ""))
       ELSE IF ~AvailableItem(itemId)
       THEN Respond(p, Failure(p, r, 404,
                "Item not found or not available for claiming", ""))
       ELSE IF IsOwnItem(itemId, u)
       THEN Respond(p, Failure(p, r, 400, "You cannot claim your own item", ""))
       ELSE Continue(p, r, "check_existing",
                [item_owner_id |-> items[itemId].reporter_id,
                 verification_questions |-> items[itemId].verification_questions])

\* the validation with the length comparison left out
AnswersAreArray(arg, questions) == arg.kind = "array"

\* Array.isArray(verificationAnswers)
\*     && verificationAnswers.length === verificationQuestions.length
AnswersProvided(arg, questions) ==
    arg.kind = "array" /\ Len(arg.val) = Len(questions)

\* the existence check, the answer validation and the evaluation
PostClaimCheckExisting(p) ==
    LET r == req[p]
        questions == r.loc.verification_questions
    IN
    /\ r.op = "post_claim" /\ r.pc = "check_existing"
    /\ UNCHANGED <<variant, call, users, disk, uploads, items, claims, next_claim_id, next_item_id, next_user_id, nreq>>
    /\ IF ExistingClaims(r.id, r.user) # {}
       THEN Respond(p, Failure(p, r, 400,
                "You have already submitted a claim for this item", ""))
       ELSE IF Len(questions) = 0
       THEN Respond(p, Failure(p, r, 400,
                "This item does not have verification questions set up", ""))
       ELSE IF ~AnswersProvided(r.arg, questions)
       THEN Respond(p, Failure(p, r, 400,
                "Please provide answers to all verification questions", ""))
       ELSE LET cmp == Comparisons(questions, r.arg.val)
                correct == CountCorrect(cmp)
            IN Continue(p, r, "insert",
                  [item_owner_id |-> r.loc.item_owner_id,
                   claim_status |-> ClaimStatusFor(variant, correct, Len(questions)),
                   correct_answers |-> correct,
                   comparisons |-> cmp])

\* res.status(201).json({success: true, claim: {...}})
PostClaimBody(claimId, loc) ==
    [kind |-> "claim",
     claim_id |-> claimId,
     status |-> loc.claim_status,
     correct_answers |-> loc.correct_answers,
     total_questions |-> Len(loc.comparisons),
     accuracy_percentage |->
         AccuracyPercentage(loc.correct_answers, Len(loc.comparisons))]

\* FOREIGN KEY (item_id), (claimant_id), (item_owner_id): the rows the new
\* claim refers to exist
ReferencedRows(itemId, userId, ownerId) ==
    /\ itemId \in DOMAIN items
    /\ users[userId] # NoUser
    /\ users[ownerId] # NoUser

\* INSERT INTO claims: the unique key rejects a second row for the pair, the
\* foreign keys a row whose item or user is gone, and the handler's catch
\* answers 500.  The AUTO_INCREMENT value is taken before the keys are
\* checked and is not given back: a refused INSERT uses its id up.
PostClaimInsert(p) ==
    LET r == req[p] IN
    /\ r.op = "post_claim" /\ r.pc = "insert"
    /\ UNCHANGED <<variant, call, users, disk, uploads, items, nreq,
                   next_item_id, next_user_id>>
    /\ next_claim_id' = next_claim_id + 1
    /\ IF ~UniqueUserItemClaim(r.id, r.user)
       THEN /\ claims' = claims
            /\ Respond(p, Failure(p, r, 500,
                   "Failed to submit claim. Please try again.", "ER_DUP_ENTRY"))
       ELSE IF ~ReferencedRows(r.id, r.user, r.loc.item_owner_id)
       THEN /\ claims' = claims
            /\ Respond(p, Failure(p, r, 500,
                   "Failed to submit claim. Please try again.",
                   "ER_NO_REFERENCED_ROW"))
       ELSE /\ claims' = claims @@ (next_claim_id :>
                   NewClaimRow(r.id, r.user, r.loc.item_owner_id,
                               r.loc.claim_status, r.loc.comparisons))
            /\ IF r.loc.claim_status = "approved"
               THEN Continue(p, r, "update_item",
                        [claim_id |-> next_claim_id,
                         claim_status |-> r.loc.claim_status,
                         correct_answers |-> r.loc.correct_answers,
                         comparisons |-> r.loc.comparisons])
               ELSE Respond(p, Success(p, r, 201,
                        PostClaimBody(next_claim_id, r.loc)))

\* auto-approve revision: UPDATE items SET status = 'claimed'
PostClaimUpdateItem(p) ==
    LET r == req[p] IN
    /\ r.op = "post_claim" /\ r.pc = "update_item"
    /\ items' = UpdateItemStatus(r.id, "claimed")
    /\ UNCHANGED <<variant, call, users, disk, uploads, claims, next_claim_id, next_item_id, next_user_id, nreq>>
    /\ Continue(p, r, "notify", r.loc)

\* auto-approve revision: INSERT INTO notifications in a try of its own,
\* whose catch only logs (the table is not one of the model's), then 201
PostClaimNotify(p) ==
    LET r == req[p] IN
    /\ r.op = "post_claim" /\ r.pc = "notify"
    /\ UNCHANGED <<variant, call, users, disk, uploads, items, claims,
                   next_claim_id, next_item_id, next_user_id, nreq>>
    /\ Respond(p, Success(p, r, 201, PostClaimBody(r.loc.claim_id, r.loc)))


\* ------------------------------------------------------------------------
\* POST /api/claims/:id/proof   (proof-gated revision only)
\* ------------------------------------------------------------------------

\* SELECT c.* FROM claims c JOIN items i ... WHERE c.claim_id = ? AND c.claimant_id = ?
ClaimOfClaimant(c, u) ==
    /\ c \in ClaimIds
    /\ claims[c].item_id \in DOMAIN items
    /\ claims[c].claimant_id = u

\* ['awaiting_proof', 'proof_submitted'].includes(claim.claim_status)
ProofAccepted(st) == st \in {"awaiting_proof", "proof_submitted"}

\* multer's filename(): Date.now() and a random suffix make a name that no
\* upload was stored under before, n uploads having been stored
FreshNames(n) ==
    IF n < Len(FileNames) THEN {FileNames[n + 1]} ELSE {}

\* the global error handler of server.js, which answers an error a
\* middleware passed to next(): err.status || 500 and, unless NODE_ENV is
\* development, this message
InternalError(p, r) ==
    [Silent(p, r) EXCEPT !.arg = BodyShape(r), !.status = 500,
                         !.error = "Internal server error", !.cause = "upload"]

\* upload.single('aadharProof'), a middleware of its own between
\* authenticateToken and the handler.  A file its fileFilter or size limit
\* refuses is not kept and the error goes to the global error handler, the
\* route's handler never running.  Otherwise it stores the file, and the
\* handler runs up to its SELECT (400 at once for a request without a
\* file).
ProofUpload(p, u, c, file) ==
    LET r == Request("proof", u, c, file) IN
    /\ variant = "proof_gated"
    /\ Starts(p, u)
    /\ UNCHANGED <<variant, call, users, items, claims, next_claim_id,
                   next_item_id, next_user_id>>
    /\ IF file = BadFile
       THEN /\ UNCHANGED <<disk, uploads>>
            /\ Respond(p, InternalError(p, r))
       ELSE IF file = NoFile
       THEN /\ UNCHANGED <<disk, uploads>>
            /\ Respond(p, Failure(p, r, 400, "Aadhar card image is required", ""))
       ELSE /\ file \in FreshNames(uploads)
            /\ disk' = disk \cup {file}
            /\ uploads' = uploads + 1
            /\ Continue(p, r, "select_claim", NULL)

\* the claim lookup and the status check
ProofSelectClaim(p) ==
    LET r == req[p]
        c == r.id
    IN
    /\ r.op = "proof" /\ r.pc = "select_claim"
    /\ UNCHANGED <<variant, call, users, disk, uploads, items, claims,
                   next_claim_id, next_item_id, next_user_id, nreq>>
    /\ IF ~ClaimOfClaimant(c, r.user)
       THEN Respond(p, Failure(p, r, 404, "Claim not found or access denied", ""))
       ELSE IF ~ProofAccepted(claims[c].claim_status)
       THEN Respond(p, Failure(p, r, 400,
                "Proof can only be submitted for claims awaiting proof", ""))
       ELSE Continue(p, r, "update_claim", [item_id |-> claims[c].item_id,
                 claim_status |-> claims[c].claim_status])

\* UPDATE claims SET aadhar_proof = ?, claim_status = 'proof_submitted', proof_submitted_at = NOW()
ProofUpdateClaim(p) ==
    LET r == req[p] IN
    /\ r.op = "proof" /\ r.pc = "update_claim"
    /\ claims' = IF r.id \in ClaimIds
                 THEN UpdateClaim(r.id, [claims[r.id] EXCEPT
                          !.aadhar_proof = r.arg,
                          !.claim_status = "proof_submitted",
                          !.proof_submitted_at = TRUE])
                 ELSE claims
    /\ UNCHANGED <<variant, call, users, disk, uploads, items, next_claim_id, next_item_id, next_user_id, nreq>>
    /\ Respond(p, Success(p, r, 200, NoBody))

\* ------------------------------------------------------------------------
\* Owner actions: verify-proof, approve, reject
\* ------------------------------------------------------------------------

\* the lookup with the WHERE clause of complete: either party passes
ClaimOfOwnerOrClaimant(c, u) ==
    /\ c \in ClaimIds
    /\ claims[c].item_id \in DOMAIN items
    /\ (claims[c].item_owner_id = u \/ claims[c].claimant_id = u)

\* SELECT c.* FROM claims c JOIN items i ... WHERE c.claim_id = ? AND c.item_owner_id = ?
ClaimOfOwner(c, u) ==
    /\ c \in ClaimIds
    /\ claims[c].item_id \in DOMAIN items
    /\ claims[c].item_owner_id = u

\* the lookup shared by verify-proof, approve and reject
OwnerSelectClaim(p, r) ==
    /\ UNCHANGED <<variant, call, users, disk, uploads, items, claims, next_claim_id, next_item_id, next_user_id>>
    /\ IF ~ClaimOfOwner(r.id, r.user)
       THEN Respond(p, Failure(p, r, 404, "Claim not found or access denied", ""))
       ELSE Continue(p, r, "update_claim", [item_id |-> claims[r.id].item_id,
                 claim_status |-> claims[r.id].claim_status])

\* PUT /api/claims/:id/verify-proof   (proof-gated revision only)
VerifyProofSelectClaim(p, u, c, verified) ==
    /\ variant = "proof_gated"
    /\ Starts(p, u)
    /\ OwnerSelectClaim(p, Request("verify_proof", u, c, verified))

\* verified: approve the claim; otherwise reject it and answer at once
VerifyProofUpdateClaim(p) ==
    LET r == req[p] IN
    /\ r.op = "verify_proof" /\ r.pc = "update_claim"
    /\ UNCHANGED <<variant, call, users, disk, uploads, items, next_claim_id, next_item_id, next_user_id, nreq>>
    /\ IF r.arg
       THEN /\ claims' = IF r.id \in ClaimIds
                         THEN UpdateClaim(r.id, [claims[r.id] EXCEPT
                                  !.claim_status = "approved",
                                  !.proof_verified = TRUE,
                                  !.approved_at = TRUE,
                                  !.contact_revealed = TRUE])
                         ELSE claims
            /\ Continue(p, r, "update_item", r.loc)
       ELSE /\ claims' = IF r.id \in ClaimIds
                         THEN UpdateClaim(r.id, [claims[r.id] EXCEPT
                                  !.claim_status = "rejected",
                                  !.proof_verified = FALSE])
                         ELSE claims
            /\ Respond(p, Success(p, r, 200, NoBody))

VerifyProofUpdateItem(p) ==
    LET r == req[p] IN
    /\ r.op = "verify_proof" /\ r.pc = "update_item"
    /\ items' = UpdateItemStatus(r.loc.item_id, "claimed")
    /\ UNCHANGED <<variant, call, users, disk, uploads, claims, next_claim_id, next_item_id, next_user_id, nreq>>
    /\ Respond(p, Success(p, r, 200, NoBody))

\* PUT /api/claims/:id/approve
ApproveSelectClaim(p, u, c) ==
    /\ Starts(p, u)
    /\ OwnerSelectClaim(p, Request("approve", u, c, NULL))

\* the claim write of approve with the contact_revealed column left out
ApproveUpdateClaimKeepsFlag(p) ==
    LET r == req[p] IN
    /\ r.op = "approve" /\ r.pc = "update_claim"
    /\ claims' = IF r.id \in ClaimIds
                 THEN UpdateClaim(r.id, [claims[r.id] EXCEPT
                          !.claim_status = "approved",
                          !.approved_at = TRUE])
                 ELSE claims
    /\ UNCHANGED <<variant, call, users, disk, uploads, items, next_claim_id, next_item_id, next_user_id, nreq>>
    /\ Continue(p, r, "update_item", r.loc)

\* UPDATE claims SET claim_status = 'approved', approved_at = NOW(),
\* contact_revealed = TRUE WHERE claim_id = ?
ApproveUpdateClaim(p) ==
    LET r == req[p] IN
    /\ r.op = "approve" /\ r.pc = "update_claim"
    /\ claims' = IF r.id \in ClaimIds
                 THEN UpdateClaim(r.id, [claims[r.id] EXCEPT
                          !.claim_status = "approved",
                          !.approved_at = TRUE,
                          !.contact_revealed = TRUE])
                 ELSE claims
    /\ UNCHANGED <<variant, call, users, disk, uploads, items, next_claim_id, next_item_id, next_user_id, nreq>>
    /\ Continue(p, r, "update_item", r.loc)

ApproveUpdateItem(p) ==
    LET r == req[p] IN
    /\ r.op = "approve" /\ r.pc = "update_item"
    /\ items' = UpdateItemStatus(r.loc.item_id, "claimed")
    /\ UNCHANGED <<variant, call, users, disk, uploads, claims, next_claim_id, next_item_id, next_user_id, nreq>>
    /\ Respond(p, Success(p, r, 200, NoBody))

\* PUT /api/claims/:id/reject
RejectSelectClaim(p, u, c, reason) ==
    /\ Starts(p, u)
    /\ OwnerSelectClaim(p, Request("reject", u, c, reason))

\* reason || 'Rejected by item owner'
RejectNotes(reason) == IF reason = NULL THEN "Rejected by item owner" ELSE reason

RejectUpdateClaim(p) ==
    LET r == req[p] IN
    /\ r.op = "reject" /\ r.pc = "update_claim"
    /\ claims' = IF r.id \in ClaimIds
                 THEN UpdateClaim(r.id, [claims[r.id] EXCEPT
                          !.claim_status = "rejected",
                          !.admin_notes = RejectNotes(r.arg)])
                 ELSE claims
    /\ UNCHANGED <<variant, call, users, disk, uploads, items, next_claim_id, next_item_id, next_user_id, nreq>>
    /\ Respond(p, Success(p, r, 200, NoBody))

\* ------------------------------------------------------------------------
\* Either party: complete, contact lookup
\* ------------------------------------------------------------------------

\* the lookup without the caller in its WHERE clause
ClaimOfAnyone(c, u) ==
    /\ c \in ClaimIds
    /\ claims[c].item_id \in DOMAIN items

\* ... WHERE c.claim_id = ? AND (c.item_owner_id = ? OR c.claimant_id = ?)
ClaimOfParty(c, u) ==
    /\ c \in ClaimIds
    /\ claims[c].item_id \in DOMAIN items
    /\ (claims[c].item_owner_id = u \/ claims[c].claimant_id = u)

\* PUT /api/claims/:id/complete
CompleteSelectClaim(p, u, c) ==
    LET r == Request("complete", u, c, NULL) IN
    /\ Starts(p, u)
    /\ UNCHANGED <<variant, call, users, disk, uploads, items, claims, next_claim_id, next_item_id, next_user_id>>
    /\ IF ~ClaimOfParty(c, u)
       THEN Respond(p, Failure(p, r, 404, "Claim not found or access denied", ""))
       ELSE Continue(p, r, "update_claim", [item_id |-> claims[c].item_id,
                 claim_status |-> claims[c].claim_status])

CompleteUpdateClaim(p) ==
    LET r == req[p] IN
    /\ r.op = "complete" /\ r.pc = "update_claim"
    /\ claims' = IF r.id \in ClaimIds
                 THEN UpdateClaim(r.id, [claims[r.id] EXCEPT
                          !.claim_status = "completed",
                          !.completed_at = TRUE])
                 ELSE claims
    /\ UNCHANGED <<variant, call, users, disk, uploads, items, next_claim_id, next_item_id, next_user_id, nreq>>
    /\ Continue(p, r, "update_item", r.loc)

CompleteUpdateItem(p) ==
    LET r == req[p] IN
    /\ r.op = "complete" /\ r.pc = "update_item"
    /\ items' = UpdateItemStatus(r.loc.item_id, "returned")
    /\ UNCHANGED <<variant, call, users, disk, uploads, claims, next_claim_id, next_item_id, next_user_id, nreq>>
    /\ Respond(p, Success(p, r, 200, NoBody))

\* the contact of the response: the claimant's name, e-mail and phone
ContactBody(c) == [kind |-> "contact", user_id |-> claims[c].claimant_id]

\* GET /api/claims/:id/contact
GetContact(p, u, c) ==
    LET r == Request("contact", u, c, NULL) IN
    /\ Starts(p, u)
    /\ UNCHANGED <<variant, call, users, disk, uploads, items, claims, next_claim_id, next_item_id, next_user_id>>
    /\ IF ~ClaimOfParty(c, u)
       THEN Respond(p, Failure(p, r, 404, "Claim not found or access denied", ""))
       ELSE IF claims[c].claim_status # "approved"
       THEN Respond(p, Failure(p, r, 403,
                "Contact information is only available for approved claims", ""))
       ELSE Respond(p, Success(p, r, 200, ContactBody(c)))

\* ------------------------------------------------------------------------
\* A statement of a handler throws (connection lost, deadlock): the catch
\* block answers 500 and the remaining statements never run
\* ------------------------------------------------------------------------

CatchMessage(op) ==
    CASE op = "post_claim"   -> "Failed to submit claim. Please try again."
      [] op = "proof"        -> "Failed to submit proof"
      [] op = "verify_proof" -> "Failed to verify proof"
      [] op = "approve"      -> "Failed to approve claim"
      [] op = "reject"       -> "Failed to reject claim"
      [] op = "complete"     -> "Failed to complete claim"
      [] op = "item_put"     -> "Failed to update item"
      [] op = "item_delete"  -> "Failed to delete item"
      [] op = "item_post"    -> "Failed to create item. Please try again."
      [] op = "admin_delete_user" -> "Failed to delete user"
      [] op = "admin_delete_item" -> "Failed to delete item"
      [] op = "admin_verify_user" -> "Failed to update user verification status"
      [] op = "admin_verify_item" -> "Failed to update item verification status"
      [] OTHER               -> "Failed to get contact information"

\* the checks a handler makes before its first statement let the request
\* through: the body of a submission, requireAdmin
ReachesStatement(r) ==
    CASE r.op = "post_claim" -> r.arg.kind # "missing"
      [] r.op = "verify_proof" -> variant = "proof_gated"
      [] r.op \in {"admin_verify_user", "admin_delete_user",
                   "admin_verify_item", "admin_delete_item"} -> IsAdmin(r.user)
      [] OTHER -> TRUE

\* the first statement of request r throws, on a route whose handler
\* follows the middleware directly
FirstStatementFails(p, r) ==
    /\ Starts(p, r.user)
    /\ ReachesStatement(r)
    /\ UNCHANGED <<variant, call, users, disk, uploads, items, claims,
                   next_claim_id, next_item_id, next_user_id>>
    /\ Respond(p, Failure(p, r, 500, CatchMessage(r.op), "storage"))

\* a statement of the handler in slot p throws: a later one, or the first
\* on a route with an upload between the middleware and the handler.  The
\* notification INSERT and the column lookup of createItem have a catch of
\* their own.
StatementFails(p) ==
    /\ req[p].op \notin {"idle", "authenticated", "signup"}
    /\ req[p].pc \notin {"notify", "has_column"}
    /\ UNCHANGED <<variant, call, users, disk, uploads, items, claims, next_claim_id, next_item_id, next_user_id, nreq>>
    /\ Respond(p, Failure(p, req[p], 500, CatchMessage(req[p].op), "storage"))

\* ------------------------------------------------------------------------
\* Specification
\* ------------------------------------------------------------------------

\* the routes both revisions of routes/claims.js define, for requests of
\* the users U that name the items I, the answers A and the claims C
CommonStepOf(p, U, I, A, C) ==
    \/ \E u \in U, i \in I, a \in A : PostClaimSelectItem(p, u, i, a)
    \/ PostClaimCheckExisting(p)
    \/ PostClaimInsert(p)
    \/ \E u \in U, c \in C : ApproveSelectClaim(p, u, c)
    \/ ApproveUpdateClaim(p)
    \/ ApproveUpdateItem(p)
    \/ \E u \in U, c \in C, n \in ReasonInputs : RejectSelectClaim(p, u, c, n)
    \/ RejectUpdateClaim(p)
    \/ \E u \in U, c \in C : CompleteSelectClaim(p, u, c)
    \/ CompleteUpdateClaim(p)
    \/ CompleteUpdateItem(p)
    \/ \E u \in U, c \in C : GetContact(p, u, c)
    \/ \E u \in U, i \in I, a \in A :
           FirstStatementFails(p, Request("post_claim", u, i, a))
    \/ \E u \in U, c \in C, op \in {"approve", "reject", "complete", "contact"} :
           FirstStatementFails(p, Request(op, u, c, NULL))
    \/ StatementFails(p)

CommonStep(p) ==
    CommonStepOf(p, Users, ItemIdInputs, AnswerInputs, ClaimIdInputs)

\* the routes only the proof-gated revision defines
ProofStepOf(p, U, C) ==
    \/ \E u \in U, c \in C, f \in FileInputs : ProofUpload(p, u, c, f)
    \/ ProofSelectClaim(p)
    \/ ProofUpdateClaim(p)
    \/ \E u \in U, c \in C, v \in BOOLEAN : VerifyProofSelectClaim(p, u, c, v)
    \/ VerifyProofUpdateClaim(p)
    \/ VerifyProofUpdateItem(p)
    \/ \E u \in U, c \in C, v \in BOOLEAN :
           FirstStatementFails(p, Request("verify_proof", u, c, v))

ProofStep(p) == ProofStepOf(p, Users, ClaimIdInputs)

\* the middleware's step of a request with the token of one of the users U
AuthStep(p, U) ==
    \/ \E u \in U : Authenticate(p, u)
    \/ \E u \in U, l \in {"returns", "throws"} : AuthRejects(p, u, l)

\* the proof-gated revision (the current one)
Next == \E p \in Procs : AuthStep(p, Users) \/ CommonStep(p) \/ ProofStep(p)

Spec == Init /\ [][Next]_vars

\* the revision that approves a strong match on submission
InitAutoApprove ==
    /\ variant = "auto_approve"
    /\ items = InitItems
    /\ claims = <<>>
    /\ next_claim_id = 1
    /\ next_item_id = Cardinality(ItemIds) + 1
    /\ next_user_id = Cardinality(DOMAIN InitUsers) + 1
    /\ req = [p \in Procs |-> Idle]
    /\ out = NoOutput
    /\ nreq = 0
    /\ call = NoCall
    /\ users = InitUsers
    /\ disk = {}
    /\ uploads = 0

NextAutoApprove ==
    \E p \in Procs :
        \/ AuthStep(p, Users)
        \/ CommonStep(p)
        \/ PostClaimUpdateItem(p)
        \/ PostClaimNotify(p)

SpecAutoApprove == InitAutoApprove /\ [][NextAutoApprove]_vars

\* the claims table after user u submitted answers to item 1 (POST
\* /api/claims served to its end)
SubmittedClaim(u, answers) ==
    LET cmp == Comparisons(Questions1, answers)
    IN NewClaimRow(1, u, InitItems[1].reporter_id,
                   ClaimStatusFor("proof_gated", CountCorrect(cmp), Len(Questions1)),
                   cmp)

\* the proof-gated revision once claims on item 1 are open: user 2 has
\* claimed it, and in one of the two starts user 3 has as well
InitOpenClaims ==
    /\ variant = "proof_gated"
    /\ items = InitItems
    /\ claims \in {(1 :> SubmittedClaim(2, AnsStrong)),
                   (1 :> SubmittedClaim(2, AnsStrong))
                       @@ (2 :> SubmittedClaim(3, AnsPartial))}
    /\ next_claim_id = Cardinality(DOMAIN claims) + 1
    /\ next_item_id = Cardinality(ItemIds) + 1
    /\ next_user_id = Cardinality(DOMAIN InitUsers) + 1
    /\ req = [p \in Procs |-> Idle]
    /\ out = NoOutput
    /\ nreq = 0
    /\ call = NoCall
    /\ users = InitUsers
    /\ disk = {}
    /\ uploads = 0

SpecOpenClaims == InitOpenClaims /\ [][Next]_vars

\* ------------------------------------------------------------------------
\* POST /api/auth/signup (routes/auth.js)
\* ------------------------------------------------------------------------

\* req.body of a signup: e-mails that match the handler's emailRegex and
\* one that does not, student ids (one empty), passwords
EmailInputs == Emails \cup {EmailOf(1), "nomail"}
StudentIdInputs == {"", StudentIdOf(1), "S8", "S9"}
PasswordInputs == {"Passw0rd", "password", "weak"}

\* !req.body[field] || req.body[field].trim() === ''
FieldMissing(v) == v = ""

\* /^[^\s@]+@[^\s@]+\.[^\s@]+$/.test(email), on the e-mails above
IsEmail(e) == e \in Emails \cup {EmailOf(1)}

\* /^(?=.*[a-z])(?=.*[A-Z])(?=.*\d)/.test(password), on the passwords above
HasLowerUpperDigit(pw) == pw = "Passw0rd"

\* SELECT user_id FROM users WHERE email = ? OR student_id = ?
RegisteredUsers(email, studentId) ==
    {u \in DOMAIN users :
        users[u] # NoUser
        /\ (users[u].email = email \/ users[u].student_id = studentId)}

\* the users table without its unique keys: every INSERT is accepted
NoUniqueUserKeys(email, studentId) == TRUE

\* student_id VARCHAR(20) UNIQUE NOT NULL, email VARCHAR(100) UNIQUE NOT NULL
UniqueUserKeys(email, studentId) == RegisteredUsers(email, studentId) = {}

\* cleanupFiles(req.files): unlink the stored upload, if there is one
cleanupFiles(file) == disk \ {file}

RegisteredMessage == "Student ID or email already registered"

\* what the handler answers to a body it refuses before any statement
SignupRefusal(body) ==
    IF FieldMissing(body.studentId) THEN "StudentId is required"
    ELSE IF FieldMissing(body.email) THEN "Email is required"
    ELSE IF body.file = NoFile THEN "Student ID Required"
    ELSE IF ~IsEmail(body.email) THEN "Invalid email format"
    ELSE IF Len(body.password) < 6
    THEN "Password must be at least 6 characters long"
    ELSE IF ~HasLowerUpperDigit(body.password)
    THEN "Password must contain at least one uppercase letter, one lowercase letter, and one number"
    ELSE ""

\* documentUpload.fields, the middleware in front of the handler: it stores
\* the card and calls next(); a file its fileFilter refuses is not kept and
\* the error goes to the global error handler
SignupUpload(p, studentId, email, password, file) ==
    LET body == [studentId |-> studentId, email |-> email,
                 password |-> password, file |-> file]
        r == Request("signup", 0, 0, body)
    IN
    /\ Arrives(p)
    /\ nreq' = nreq + 1
    /\ UNCHANGED <<variant, call, users, items, claims, next_claim_id,
                   next_item_id, next_user_id>>
    /\ IF file = BadFile
       THEN /\ UNCHANGED <<disk, uploads>>
            /\ Respond(p, InternalError(p, r))
       ELSE IF file = NoFile
       THEN /\ UNCHANGED <<disk, uploads>>
            /\ Continue(p, r, "validate", NULL)
       ELSE /\ file \in FreshNames(uploads)
            /\ disk' = disk \cup {file}
            /\ uploads' = uploads + 1
            /\ Continue(p, r, "validate", NULL)

\* the handler validates the body up to its existence check, each refusal
\* deleting the stored card again
SignupValidate(p) ==
    LET r == req[p] IN
    /\ r.op = "signup" /\ r.pc = "validate"
    /\ UNCHANGED <<variant, call, users, uploads, items, claims,
                   next_claim_id, next_item_id, next_user_id, nreq>>
    /\ IF SignupRefusal(r.arg) # ""
       THEN /\ disk' = cleanupFiles(r.arg.file)
            /\ Respond(p, Failure(p, r, 400, SignupRefusal(r.arg), ""))
       ELSE /\ disk' = disk
            /\ Continue(p, r, "check_existing", NULL)

\* the existence check: a registered e-mail or student id is refused and
\* the upload deleted
SignupCheckExisting(p) ==
    LET r == req[p] IN
    /\ r.op = "signup" /\ r.pc = "check_existing"
    /\ UNCHANGED <<variant, call, users, uploads, items, claims,
                   next_claim_id, next_item_id, next_user_id, nreq>>
    /\ IF RegisteredUsers(r.arg.email, r.arg.studentId) # {}
       THEN /\ disk' = cleanupFiles(r.arg.file)
            /\ Respond(p, Failure(p, r, 400, RegisteredMessage, ""))
       ELSE /\ disk' = disk
            /\ Continue(p, r, "insert", NULL)

\* INSERT INTO users: a unique key rejects the row (ER_DUP_ENTRY) and the
\* catch deletes the upload and answers 400.  The AUTO_INCREMENT value is
\* taken before the keys are checked: a refused INSERT uses its id up, and
\* the id of a deleted row is not given again.
SignupInsert(p) ==
    LET r == req[p] IN
    /\ r.op = "signup" /\ r.pc = "insert"
    /\ UNCHANGED <<variant, call, items, claims, next_claim_id, next_item_id,
                   nreq, uploads>>
    /\ next_user_id' = next_user_id + 1
    /\ IF ~UniqueUserKeys(r.arg.email, r.arg.studentId)
       THEN /\ users' = users
            /\ disk' = cleanupFiles(r.arg.file)
            /\ Respond(p, Failure(p, r, 400, RegisteredMessage, "ER_DUP_ENTRY"))
       ELSE /\ users' = users @@ (next_user_id :>
                   [student_id |-> r.arg.studentId, email |-> r.arg.email,
                    student_id_card |-> r.arg.file, is_verified |-> TRUE,
                    role |-> "student"])
            /\ disk' = disk
            /\ Continue(p, r, "select_user", [user_id |-> next_user_id])

\* SELECT the created user, generateToken(newUser[0]), 201.  If the row
\* was deleted since the INSERT, newUser[0] is undefined and generateToken
\* throws: the catch deletes the upload and answers 500.
SignupRespond(p) ==
    LET r == req[p] IN
    /\ r.op = "signup" /\ r.pc = "select_user"
    /\ UNCHANGED <<variant, call, users, uploads, items, claims,
                   next_claim_id, next_item_id, next_user_id, nreq>>
    /\ IF users[r.loc.user_id] = NoUser
       THEN /\ disk' = cleanupFiles(r.arg.file)
            /\ Respond(p, Failure(p, r, 500,
                   "Registration failed. Please try again.", "TypeError"))
       ELSE /\ disk' = disk
            /\ Respond(p, Success(p, r, 201,
                   [kind |-> "user", id |-> r.loc.user_id]))

\* the existence check itself throws: the catch deletes the upload the
\* request has stored and answers 500
SignupLookupFails(p) ==
    LET r == req[p] IN
    /\ r.op = "signup" /\ r.pc = "check_existing"
    /\ disk' = cleanupFiles(r.arg.file)
    /\ UNCHANGED <<variant, call, users, uploads, items, claims,
                   next_claim_id, next_item_id, next_user_id, nreq>>
    /\ Respond(p, Failure(p, r, 500,
           "Registration failed. Please try again.", "storage"))

\* a later statement of the signup handler throws: the catch deletes the
\* upload and answers 500
SignupStatementFails(p) ==
    /\ req[p].op = "signup"
    /\ req[p].pc \in {"insert", "select_user"}
    /\ disk' = cleanupFiles(req[p].arg.file)
    /\ UNCHANGED <<variant, call, users, items, claims, next_claim_id,
                   next_item_id, next_user_id, nreq, uploads>>
    /\ Respond(p, Failure(p, req[p], 500,
           "Registration failed. Please try again.", "storage"))

\* the signup route, for bodies over the given student ids, e-mails and
\* passwords
SignupStepOf(p, S, E, PW) ==
    \/ \E sid \in S, e \in E, pw \in PW, f \in FileInputs :
           SignupUpload(p, sid, e, pw, f)
    \/ SignupValidate(p)
    \/ SignupCheckExisting(p)
    \/ SignupLookupFails(p)
    \/ SignupInsert(p)
    \/ SignupRespond(p)
    \/ SignupStatementFails(p)

NextSignup ==
    \E p \in Procs :
        SignupStepOf(p, StudentIdInputs, EmailInputs, PasswordInputs)

SpecSignup == Init /\ [][NextSignup]_vars

\* ------------------------------------------------------------------------
\* The rows a DELETE takes with it (FOREIGN KEY ... ON DELETE CASCADE)
\* ------------------------------------------------------------------------

\* the items table with the user's postings kept: no cascade from users
ItemsKeptOfUser(u) == items

\* items.reporter_id REFERENCES users(user_id) ON DELETE CASCADE
ItemsWithoutUser(u) ==
    [i \in {j \in DOMAIN items : items[j].reporter_id # u} |-> items[i]]

\* items without the row i
ItemsWithout(i) == [j \in DOMAIN items \ {i} |-> items[j]]

\* claims.item_id, claimant_id and item_owner_id, each ON DELETE CASCADE:
\* the claims left when the items its remain and user u is gone (u = 0: no
\* user is deleted)
ClaimsLeft(its, u) ==
    [c \in {d \in ClaimIds : /\ claims[d].item_id \in DOMAIN its
                             /\ claims[d].claimant_id # u
                             /\ claims[d].item_owner_id # u} |-> claims[c]]

\* ------------------------------------------------------------------------
\* The claim counters of items and their triggers (init-claim-database.js).
\* The claims routes never read the two columns; they are kept here, over
\* the statements that write the claims table.
\* ------------------------------------------------------------------------

\* SELECT COUNT(*) FROM claims c WHERE c.item_id = i.item_id
TotalClaims(i) == Cardinality({c \in ClaimIds : claims[c].item_id = i})

\* ... AND c.claim_status = 'pending_verification'
PendingClaims(i) ==
    Cardinality({c \in ClaimIds : claims[c].item_id = i
                    /\ claims[c].claim_status = "pending_verification"})

\* UPDATE items i SET total_claims_count = (SELECT COUNT(*) ...),
\* pending_claims_count = (SELECT COUNT(*) ...)
RecomputeCounts(its) ==
    [i \in DOMAIN its |->
        [reporter_id |-> its[i].reporter_id, status |-> its[i].status,
         is_verified |-> its[i].is_verified,
         verification_questions |-> its[i].verification_questions,
         total_claims_count |-> TotalClaims(i),
         pending_claims_count |-> PendingClaims(i)]]

\* TRIGGER update_claim_counts_after_insert
AfterInsert(its, new) ==
    [its EXCEPT ![new.item_id].pending_claims_count = @ + 1,
                ![new.item_id].total_claims_count = @ + 1]

\* TRIGGER update_claim_counts_after_update
AfterUpdate(its, old, new) ==
    LET left == IF old.claim_status = "pending_verification"
                   /\ new.claim_status # "pending_verification"
                THEN [its EXCEPT ![new.item_id].pending_claims_count = @ - 1]
                ELSE its
    IN IF old.claim_status # "pending_verification"
          /\ new.claim_status = "pending_verification"
       THEN [left EXCEPT ![new.item_id].pending_claims_count = @ + 1]
       ELSE left

\* the tables once init-claim-database.js has run: no claims yet, the
\* counters recomputed
InitTriggers ==
    /\ variant = "proof_gated"
    /\ claims = <<>>
    /\ items = RecomputeCounts(InitItems)
    /\ next_claim_id = 1
    /\ next_item_id = Cardinality(ItemIds) + 1
    /\ next_user_id = Cardinality(DOMAIN InitUsers) + 1
    /\ req = [p \in Procs |-> Idle]
    /\ out = NoOutput
    /\ nreq = 0
    /\ call = NoCall
    /\ users = InitUsers
    /\ disk = {}
    /\ uploads = 0

\* one more statement on the claims table
Statement ==
    /\ nreq < MaxRequests
    /\ nreq' = nreq + 1
    /\ UNCHANGED <<variant, call, req, out>>

\* INSERT INTO claims as POST /api/claims issues it once its checks have
\* passed, with the status the evaluation of the answers gave.  The unique
\* key or a foreign key refuses the row if, since the checks, the pair got
\* a claim or the item or a user was deleted: the tables stay as they are,
\* no trigger fires, and the AUTO_INCREMENT value is used up all the same.
InsertClaim(i, u, answers) ==
    LET new == SubmittedClaim(u, answers) IN
    /\ Statement
    /\ i = new.item_id
    /\ u # new.item_owner_id
    /\ next_claim_id' = next_claim_id + 1
    /\ IF UniqueUserItemClaim(i, u) /\ ReferencedRows(i, u, new.item_owner_id)
       THEN /\ claims' = claims @@ (next_claim_id :> new)
            /\ items' = AfterInsert(items, new)
       ELSE UNCHANGED <<claims, items>>
    /\ UNCHANGED <<users, disk, uploads, next_item_id, next_user_id>>

\* upload.single('aadharProof') stores the file of a proof submission,
\* before the handler and whatever the handler does next
StoreProof(file) ==
    /\ file \in FreshNames(uploads)
    /\ disk' = disk \cup {file}
    /\ uploads' = uploads + 1
    /\ UNCHANGED <<variant, call, req, out, nreq, users, items, claims,
                   next_claim_id, next_item_id, next_user_id>>

\* the stored uploads no claim refers to: req.file.filename of a submission
\* whose UPDATE is still to come
UnusedProofs ==
    {f \in disk : \A c \in ClaimIds : claims[c].aadhar_proof # f}

\* the rows the UPDATE statements of the claims routes make of a row: proof
\* submission, verify-proof with verified and without, approve, reject,
\* complete
ClaimUpdates(row) ==
    {[row EXCEPT !.aadhar_proof = f, !.claim_status = "proof_submitted",
                 !.proof_submitted_at = TRUE] : f \in UnusedProofs}
    \cup {[row EXCEPT !.claim_status = "approved", !.proof_verified = TRUE,
                      !.approved_at = TRUE, !.contact_revealed = TRUE],
          [row EXCEPT !.claim_status = "rejected", !.proof_verified = FALSE],
          [row EXCEPT !.claim_status = "approved", !.approved_at = TRUE,
                      !.contact_revealed = TRUE],
          [row EXCEPT !.claim_status = "completed", !.completed_at = TRUE]}
    \cup {[row EXCEPT !.claim_status = "rejected",
                      !.admin_notes = RejectNotes(n)] : n \in ReasonInputs}

\* UPDATE claims SET ... WHERE claim_id = ?, one of the statements above
UpdateClaimStatus(c, new) ==
    /\ Statement
    /\ c \in ClaimIds
    /\ new \in ClaimUpdates(claims[c])
    /\ claims' = [claims EXCEPT ![c] = new]
    /\ items' = AfterUpdate(items, claims[c], new)
    /\ UNCHANGED <<next_claim_id, next_item_id, next_user_id, users, disk, uploads>>

\* DELETE FROM items WHERE item_id = ?: the claims on the item go with it.
\* No statement of the program deletes from claims itself, and a row
\* removed by a foreign key's cascade does not activate the table's delete
\* trigger (update_claim_counts_after_delete never runs).
DeleteItem(i) ==
    /\ Statement
    /\ i \in DOMAIN items
    /\ items' = ItemsWithout(i)
    /\ claims' = ClaimsLeft(ItemsWithout(i), 0)
    /\ UNCHANGED <<next_claim_id, next_item_id, next_user_id, users, disk, uploads>>

\* DELETE FROM users WHERE user_id = ?: the user's items, the claims on
\* them and the user's claims on other items go with it, the counters of
\* those other items staying as they are
DeleteUser(u) ==
    /\ Statement
    /\ users[u] # NoUser
    /\ users' = [users EXCEPT ![u] = NoUser]
    /\ items' = ItemsWithoutUser(u)
    /\ claims' = ClaimsLeft(ItemsWithoutUser(u), u)
    /\ UNCHANGED <<next_claim_id, next_item_id, next_user_id, disk, uploads>>

NextTriggers ==
    \/ \E f \in Files : StoreProof(f)
    \/ \E i \in ItemIds, u \in Users, a \in {AnsStrong, AnsPartial, AnsWeak} :
           InsertClaim(i, u, a)
    \/ \E c \in ClaimIds : \E new \in ClaimUpdates(claims[c]) :
           UpdateClaimStatus(c, new)
    \/ \E i \in ItemIds : DeleteItem(i)
    \/ \E u \in Users : DeleteUser(u)

SpecTriggers == InitTriggers /\ [][NextTriggers]_vars

\* ------------------------------------------------------------------------
\* POST /api/items, PUT and DELETE /api/items/:id (by the reporter)
\* ------------------------------------------------------------------------

\* another list of questions, which a request body may carry
Questions2 == << [question |-> "colour", answer |-> <<"r", "e", "d">>] >>

\* req.body of PUT /api/items/:id: the status, and whatever else the client
\* sends along
ItemPutBodies ==
    [status : {"active", "claimed", "returned", "closed"},
     verification_questions : {Questions1, Questions2}]

\* SELECT reporter_id FROM items WHERE item_id = ? and the owner check,
\* shared by PUT and DELETE
ItemSelectOwner(p, r, notYours) ==
    /\ UNCHANGED <<variant, call, users, disk, uploads, items, claims, next_claim_id, next_item_id, next_user_id>>
    /\ IF r.id \notin DOMAIN items
       THEN Respond(p, Failure(p, r, 404, "Item not found", ""))
       ELSE IF items[r.id].reporter_id # r.user
       THEN Respond(p, Failure(p, r, 403, notYours, ""))
       ELSE Continue(p, r, "write_item", NULL)

ItemPutSelect(p, u, i, body) ==
    /\ Starts(p, u)
    /\ ItemSelectOwner(p, Request("item_put", u, i, body),
                       "You can only update your own items")

\* an update that writes every column the body names
ItemPutUpdateAllColumns(p) ==
    LET r == req[p] IN
    /\ r.op = "item_put" /\ r.pc = "write_item"
    /\ items' = IF r.id \in DOMAIN items
                THEN [items EXCEPT ![r.id].status = r.arg.status,
                          ![r.id].verification_questions =
                              r.arg.verification_questions]
                ELSE items
    /\ UNCHANGED <<variant, call, users, disk, uploads, claims, next_claim_id, next_item_id, next_user_id, nreq>>
    /\ Respond(p, Success(p, r, 200, NoBody))

\* UPDATE items SET title = ?, description = ?, status = ? WHERE item_id = ?
ItemPutUpdate(p) ==
    LET r == req[p] IN
    /\ r.op = "item_put" /\ r.pc = "write_item"
    /\ items' = UpdateItemStatus(r.id, r.arg.status)
    /\ UNCHANGED <<variant, call, users, disk, uploads, claims, next_claim_id, next_item_id, next_user_id, nreq>>
    /\ Respond(p, Success(p, r, 200, NoBody))

\* req.body of POST /api/items (JSON, no images): the type, present and
\* valid or not, and the questions, a list or absent
ItemPostBodies ==
    [type : {"found", "stolen", ""},
     verificationQuestions : {Questions1, <<>>}]

\* POST /api/items: upload.array('images', 5), a middleware of its own,
\* has parsed the body; the handler validates it up to its column lookup
ItemPostUpload(p, u, body) ==
    LET r == Request("item_post", u, 0, body) IN
    /\ Starts(p, u)
    /\ UNCHANGED <<variant, call, users, disk, uploads, items, claims,
                   next_claim_id, next_item_id, next_user_id>>
    /\ IF body.type = ""
       THEN Respond(p, Failure(p, r, 400, "Missing required fields", ""))
       ELSE IF body.type \notin {"lost", "found"}
       THEN Respond(p, Failure(p, r, 400,
                "Type must be either \"lost\" or \"found\"", ""))
       ELSE Continue(p, r, "has_column", NULL)

\* hasColumn('items', 'category'): the lookup returns, or throws and is
\* caught there; either INSERT writes the same columns of the model
ItemPostHasColumn(p) ==
    LET r == req[p] IN
    /\ r.op = "item_post" /\ r.pc = "has_column"
    /\ UNCHANGED <<variant, call, users, disk, uploads, items, claims,
                   next_claim_id, next_item_id, next_user_id, nreq>>
    /\ Continue(p, r, "insert", NULL)

\* INSERT INTO items: reporter_id the caller, is_verified false, status
\* 'active'; the foreign key refuses a reporter deleted meanwhile (500),
\* and the refused INSERT has used its AUTO_INCREMENT value up
ItemPostInsert(p) ==
    LET r == req[p] IN
    /\ r.op = "item_post" /\ r.pc = "insert"
    /\ UNCHANGED <<variant, call, users, disk, uploads, claims,
                   next_claim_id, next_user_id, nreq>>
    /\ next_item_id' = next_item_id + 1
    /\ IF users[r.user] = NoUser
       THEN /\ items' = items
            /\ Respond(p, Failure(p, r, 500, CatchMessage(r.op),
                                  "ER_NO_REFERENCED_ROW"))
       ELSE /\ items' = items @@ (next_item_id :>
                   [reporter_id |-> r.user, status |-> "active",
                    is_verified |-> FALSE,
                    verification_questions |-> r.arg.verificationQuestions])
            /\ Continue(p, r, "select_item", [item_id |-> next_item_id])

\* the item of the 201 response, newItem[0]: the row the SELECT finds, or
\* undefined (the body then has no item) if it was deleted since the INSERT
CreatedItem(itemId) ==
    IF itemId \in DOMAIN items
    THEN [kind |-> "item", id |-> itemId]
    ELSE [kind |-> "item", id |-> 0]

\* SELECT the created item, 201
ItemPostRespond(p) ==
    LET r == req[p] IN
    /\ r.op = "item_post" /\ r.pc = "select_item"
    /\ UNCHANGED <<variant, call, users, disk, uploads, items, claims,
                   next_claim_id, next_item_id, next_user_id, nreq>>
    /\ Respond(p, Success(p, r, 201, CreatedItem(r.loc.item_id)))

ItemDeleteSelect(p, u, i) ==
    /\ Starts(p, u)
    /\ ItemSelectOwner(p, Request("item_delete", u, i, NULL),
                       "You can only delete your own items")

\* DELETE FROM items WHERE item_id = ?
ItemDeleteRow(p) ==
    LET r == req[p] IN
    /\ r.op = "item_delete" /\ r.pc = "write_item"
    /\ items' = ItemsWithout(r.id)
    /\ claims' = ClaimsLeft(ItemsWithout(r.id), 0)
    /\ UNCHANGED <<variant, call, users, disk, uploads, next_claim_id, next_item_id, next_user_id, nreq>>
    /\ Respond(p, Success(p, r, 200, NoBody))

\* ------------------------------------------------------------------------
\* /api/admin (routes/admin.js)
\* ------------------------------------------------------------------------

AdminRequired == "Admin access required"

\* PUT /api/admin/users/:id/verify: one UPDATE
AdminVerifyUser(p, a, target, flag) ==
    LET r == Request("admin_verify_user", a, target, flag) IN
    /\ IF IsAdmin(a) THEN Starts(p, a) ELSE Refused(p, a)
    /\ UNCHANGED <<variant, call, disk, uploads, items, claims, next_claim_id, next_item_id, next_user_id>>
    /\ IF ~IsAdmin(a)
       THEN /\ users' = users
            /\ Respond(p, FailureCode(p, r, 403, AdminRequired,
                                      "INSUFFICIENT_PERMISSIONS"))
       ELSE /\ users' = IF target \in DOMAIN users /\ users[target] # NoUser
                        THEN [users EXCEPT ![target].is_verified = flag]
                        ELSE users
            /\ Respond(p, Success(p, r, 200, NoBody))

\* DELETE /api/admin/users/:id: the lookup and the role check
AdminDeleteUserSelect(p, a, target) ==
    LET r == Request("admin_delete_user", a, target, NULL) IN
    /\ IF IsAdmin(a) THEN Starts(p, a) ELSE Refused(p, a)
    /\ UNCHANGED <<variant, call, users, disk, uploads, items, claims, next_claim_id, next_item_id, next_user_id>>
    /\ IF ~IsAdmin(a)
       THEN Respond(p, FailureCode(p, r, 403, AdminRequired,
                                   "INSUFFICIENT_PERMISSIONS"))
       ELSE IF target \notin DOMAIN users \/ users[target] = NoUser
       THEN Respond(p, Failure(p, r, 404, "User not found", ""))
       ELSE IF users[target].role = "admin"
       THEN Respond(p, Failure(p, r, 403, "Cannot delete admin users", ""))
       ELSE Continue(p, r, "delete_user", NULL)

\* DELETE FROM users WHERE user_id = ?
AdminDeleteUserRow(p) ==
    LET r == req[p] IN
    /\ r.op = "admin_delete_user" /\ r.pc = "delete_user"
    /\ users' = [users EXCEPT ![r.id] = NoUser]
    /\ items' = ItemsWithoutUser(r.id)
    /\ claims' = ClaimsLeft(ItemsWithoutUser(r.id), r.id)
    /\ UNCHANGED <<variant, call, disk, uploads, next_claim_id, next_item_id, next_user_id, nreq>>
    /\ Respond(p, Success(p, r, 200, NoBody))

\* PUT /api/admin/items/:id/verify: one UPDATE
AdminVerifyItem(p, a, i, flag) ==
    LET r == Request("admin_verify_item", a, i, flag) IN
    /\ IF IsAdmin(a) THEN Starts(p, a) ELSE Refused(p, a)
    /\ UNCHANGED <<variant, call, users, disk, uploads, claims, next_claim_id, next_item_id, next_user_id>>
    /\ IF ~IsAdmin(a)
       THEN /\ items' = items
            /\ Respond(p, FailureCode(p, r, 403, AdminRequired,
                                      "INSUFFICIENT_PERMISSIONS"))
       ELSE /\ items' = IF i \in DOMAIN items
                        THEN [items EXCEPT ![i].is_verified = flag]
                        ELSE items
            /\ Respond(p, Success(p, r, 200, NoBody))

\* DELETE /api/admin/items/:id: one DELETE
AdminDeleteItem(p, a, i) ==
    LET r == Request("admin_delete_item", a, i, NULL) IN
    /\ IF IsAdmin(a) THEN Starts(p, a) ELSE Refused(p, a)
    /\ UNCHANGED <<variant, call, users, disk, uploads, next_claim_id, next_item_id, next_user_id>>
    /\ IF ~IsAdmin(a)
       THEN /\ UNCHANGED <<items, claims>>
            /\ Respond(p, FailureCode(p, r, 403, AdminRequired,
                                      "INSUFFICIENT_PERMISSIONS"))
       ELSE /\ items' = ItemsWithout(i)
            /\ claims' = ClaimsLeft(ItemsWithout(i), 0)
            /\ Respond(p, Success(p, r, 200, NoBody))

\* ------------------------------------------------------------------------
\* The claims, items, admin and signup routes together
\* ------------------------------------------------------------------------

\* the items routes that write, for requests of the users U that name the
\* items I and carry the bodies B (PUT) and N (POST)
ItemStepOf(p, U, I, B, N) ==
    \/ \E u \in U, b \in N : ItemPostUpload(p, u, b)
    \/ ItemPostHasColumn(p)
    \/ ItemPostInsert(p)
    \/ ItemPostRespond(p)
    \/ \E u \in U, i \in I, b \in B : ItemPutSelect(p, u, i, b)
    \/ ItemPutUpdate(p)
    \/ \E u \in U, i \in I : ItemDeleteSelect(p, u, i)
    \/ ItemDeleteRow(p)
    \/ \E u \in U, i \in I, b \in B :
           FirstStatementFails(p, Request("item_put", u, i, b))
    \/ \E u \in U, i \in I :
           FirstStatementFails(p, Request("item_delete", u, i, NULL))

\* the admin routes that write, called by the users A on the users T and
\* the items I
AdminStepOf(p, A, T, I) ==
    \/ \E a \in A, t \in T, f \in BOOLEAN : AdminVerifyUser(p, a, t, f)
    \/ \E a \in A, t \in T : AdminDeleteUserSelect(p, a, t)
    \/ AdminDeleteUserRow(p)
    \/ \E a \in A, i \in I, f \in BOOLEAN : AdminVerifyItem(p, a, i, f)
    \/ \E a \in A, i \in I : AdminDeleteItem(p, a, i)
    \/ \E a \in A \cap Admins, t \in T, f \in BOOLEAN :
           FirstStatementFails(p, Request("admin_verify_user", a, t, f))
    \/ \E a \in A \cap Admins, t \in T :
           FirstStatementFails(p, Request("admin_delete_user", a, t, NULL))
    \/ \E a \in A \cap Admins, i \in I, f \in BOOLEAN :
           FirstStatementFails(p, Request("admin_verify_item", a, i, f))
    \/ \E a \in A \cap Admins, i \in I :
           FirstStatementFails(p, Request("admin_delete_item", a, i, NULL))

\* what the requests of SpecCampus name: the posting on offer and the first
\* one created, the first claim, a submission that matches and one without
\* answers, updates to every status, new postings, one new account
CampusItems == {1, 3}
CampusClaims == {1}
CampusAnswers == {[kind |-> "array", val |-> AnsStrong],
                  [kind |-> "missing", val |-> <<>>]}
CampusPutBodies ==
    {b \in ItemPutBodies : b.verification_questions = Questions2}
CampusPostBodies ==
    {b \in ItemPostBodies : b.verificationQuestions = Questions1}

ItemStep(p) ==
    ItemStepOf(p, Users, CampusItems, CampusPutBodies, CampusPostBodies)

\* the accounts an administrator's request may name: those present at
\* start-up and the first one a signup creates
CampusAccounts == DOMAIN InitUsers \cup {Cardinality(DOMAIN InitUsers) + 1}

AdminStep(p) ==
    AdminStepOf(p, Users \cup Admins, CampusAccounts, CampusItems)

\* every route that writes, behind its middleware: the requests of the
\* students and of the administrator overlap at every await
NextCampus ==
    \E p \in Procs :
        \/ AuthStep(p, Users \cup Admins)
        \/ CommonStepOf(p, Users, CampusItems, CampusAnswers, CampusClaims)
        \/ ProofStepOf(p, Users, CampusClaims)
        \/ ItemStep(p)
        \/ AdminStep(p)
        \/ SignupStepOf(p, {"S8"}, {"a@college.edu"}, {"Passw0rd"})

SpecCampus == Init /\ [][NextCampus]_vars

\* ------------------------------------------------------------------------
\* The evaluator's functions called on their own
\* ------------------------------------------------------------------------

\* longest string given to calculateSimilarity
MaxStrLen == 4

\* longest answer given to the comparison
MaxAnswerLen == 6

\* largest number of questions given to the decision
MaxQuestions == 10

Alphabet == {"a", "b"}

\* the strings over Alphabet of length at most n
RECURSIVE Strings(_)
Strings(n) ==
    IF n = 0 THEN {<<>>}
    ELSE LET S == Strings(n - 1)
         IN S \cup {Append(w, c) : w \in S, c \in Alphabet}

\* an answer as typed: in capitals, or with blanks around it
UpperCase(w) == [i \in 1..Len(w) |-> IF w[i] = "a" THEN "A" ELSE "B"]
Padded(w) == <<" ">> \o w \o <<" ">>

\* q.answer of a stored question (the short ones also as typed)
StoredAnswers ==
    Strings(MaxAnswerLen) \cup {Padded(UpperCase(w)) : w \in Strings(2)}

\* verificationAnswers[index] of a submission
SubmittedAnswers ==
    LET S == Strings(MaxAnswerLen)
    IN S \cup {UpperCase(w) : w \in S} \cup {Padded(w) : w \in S}
         \cup {NullAnswer}

EvaluatorCalls ==
    {[fn |-> "calculateSimilarity", str1 |-> a, str2 |-> b] :
        a \in Strings(MaxStrLen), b \in Strings(MaxStrLen)}
    \cup {[fn |-> "isCorrect", stored |-> a, submitted |-> b] :
        a \in StoredAnswers, b \in SubmittedAnswers}
    \cup {[fn |-> "decision", correct |-> c, total |-> t] :
        t \in 1..MaxQuestions, c \in 0..MaxQuestions}

InitEvaluator ==
    /\ variant = "proof_gated"
    /\ items = InitItems
    /\ claims = <<>>
    /\ next_claim_id = 1
    /\ next_item_id = Cardinality(ItemIds) + 1
    /\ next_user_id = Cardinality(DOMAIN InitUsers) + 1
    /\ req = [p \in Procs |-> Idle]
    /\ out = NoOutput
    /\ nreq = 0
    /\ call \in {k \in EvaluatorCalls : k.fn = "decision" => k.correct <= k.total}
    /\ users = InitUsers
    /\ disk = {}
    /\ uploads = 0

Returns(result) ==
    /\ call' = [fn |-> call.fn, args |-> call, result |-> result]
    /\ UNCHANGED <<variant, items, claims, next_claim_id, next_item_id, next_user_id, req, out, nreq,
                   users, disk, uploads>>

CallCalculateSimilarity ==
    /\ call.fn = "calculateSimilarity"
    /\ "result" \notin DOMAIN call
    /\ Returns(calculateSimilarity(call.str1, call.str2))

CallIsCorrect ==
    /\ call.fn = "isCorrect"
    /\ "result" \notin DOMAIN call
    /\ Returns(IsCorrect(call.stored, call.submitted))

CallDecision ==
    /\ call.fn = "decision"
    /\ "result" \notin DOMAIN call
    /\ Returns(Decision(call.correct, call.total))

NextEvaluator == CallCalculateSimilarity \/ CallIsCorrect \/ CallDecision

SpecEvaluator == InitEvaluator /\ [][NextEvaluator]_vars

\* the call has returned
Returned(fn) == call.fn = fn /\ "result" \in DOMAIN call


\* ------------------------------------------------------------------------
\* authenticateToken called on its own
\* ------------------------------------------------------------------------

AuthCalls ==
    [fn : {"authenticateToken"}, header : AuthHeaders, users : UserTables,
     lookup : {"returns", "throws"}]

InitAuth ==
    /\ variant = "proof_gated"
    /\ items = InitItems
    /\ claims = <<>>
    /\ next_claim_id = 1
    /\ next_item_id = Cardinality(ItemIds) + 1
    /\ next_user_id = Cardinality(DOMAIN InitUsers) + 1
    /\ req = [p \in Procs |-> Idle]
    /\ out = NoOutput
    /\ nreq = 0
    /\ call \in AuthCalls
    /\ users = InitUsers
    /\ disk = {}
    /\ uploads = 0

CallAuthenticateToken ==
    /\ call.fn = "authenticateToken"
    /\ "result" \notin DOMAIN call
    /\ Returns(authenticateToken(call.header, call.users, call.lookup))

\* next(): the route's handler starts, with req.user set
RunHandler ==
    /\ Returned("authenticateToken")
    /\ call.result.next
    /\ call' = [fn |-> "handler", args |-> call.args, user |-> call.result.user]
    /\ UNCHANGED <<variant, items, claims, next_claim_id, next_item_id, next_user_id, req, out, nreq,
                   users, disk, uploads>>

NextAuth == CallAuthenticateToken \/ RunHandler

SpecAuth == InitAuth /\ [][NextAuth]_vars

\* ------------------------------------------------------------------------
\* Properties
\* ------------------------------------------------------------------------

DuplicateClaimMessage == "You have already submitted a claim for this item"
AccessDeniedMessage == "Claim not found or access denied"
NotApprovedMessage == "Contact information is only available for approved claims"

\* the two ways the claims handlers refuse a caller: the row filtered out by
\* the caller's id (404), or the contact gate (403)
IsAuthorizationError(o) ==
    \/ o.status = 404 /\ o.error = AccessDeniedMessage
    \/ o.status = 403 /\ o.error = NotApprovedMessage

\* the catch block of a handler has answered a statement that threw
StorageFailure(o) == o.status = 500 /\ o.cause = "storage" /\ o.body = NoBody

\* the latest step is the first of a request's handler: it refused the
\* request before any statement, or its first statement has returned
FirstStep == out'.op # "any" /\ req[out'.p].op \in {"idle", "authenticated"}

\* C1: the claims table never holds two claims with the same item and the
\* same claimant, whatever the interleaving of the submissions.
C1_OneClaimPerPair ==
    \A c1 \in ClaimIds, c2 \in ClaimIds :
        (claims[c1].item_id = claims[c2].item_id
            /\ claims[c1].claimant_id = claims[c2].claimant_id) => c1 = c2

\* two submissions for one pair both passed the existence check; one has
\* inserted its row and the other's INSERT was refused by the unique key
C1_Witness ==
    /\ out.op = "post_claim"
    /\ out.cause = "ER_DUP_ENTRY"
    /\ Cardinality(ExistingClaims(out.id, out.user)) = 1

\* C2: a submission that is stopped because the pair already has a claim,
\* by the existence check or by the unique key, is answered with the
\* duplicate-claim error (400, 'You have already submitted ...').
C2_DuplicateClaimError ==
    (out.op = "post_claim"
        /\ (out.error = DuplicateClaimMessage \/ out.cause = "ER_DUP_ENTRY"))
    => (out.status = 400 /\ out.error = DuplicateClaimMessage)

\* C3: a contact lookup answers contact details only if the claim's
\* contact_revealed flag is set and the caller is the claimant or the item
\* owner; any other lookup is refused (or its statement fails, 500) and
\* carries no contact detail.
C3_ContactGate ==
    out.op = "contact" =>
        IF out.status = 200
        THEN /\ out.id \in ClaimIds
             /\ claims[out.id].contact_revealed
             /\ out.user \in {claims[out.id].claimant_id,
                              claims[out.id].item_owner_id}
             /\ out.body = ContactBody(out.id)
        ELSE /\ IsAuthorizationError(out) \/ StorageFailure(out)
             /\ out.body = NoBody

\* a party of an approved claim has been given the contact
C3_Witness ==
    /\ out.op = "contact"
    /\ out.status = 200
    /\ out.body.kind = "contact"
    /\ claims[out.id].contact_revealed

\* C4: approve, reject and verify-proof by a caller who is not the item
\* owner of the claim are refused at the lookup (404 access denied, or 500
\* when the lookup itself fails): the handler ends there and claims and
\* items are left as they were.
C4_OwnerOnly ==
    [][ (FirstStep
            /\ out'.op \in {"approve", "reject", "verify_proof"}
            /\ (out'.id \in ClaimIds
                    => claims[out'.id].item_owner_id # out'.user))
        => (/\ IsAuthorizationError(out') \/ StorageFailure(out')
            /\ req'[out'.p].op = "idle"
            /\ claims' = claims
            /\ items' = items) ]_vars

\* a user who is not the owner of an existing claim has been refused
C4_Witness ==
    /\ out.op \in {"approve", "reject", "verify_proof"}
    /\ out.id \in ClaimIds
    /\ claims[out.id].item_owner_id # out.user
    /\ out.status = 404

\* the status the proof-gated revision gives a new claim for each decision
StatusOfDecision(d) ==
    IF d = "weak" THEN "pending_verification" ELSE "awaiting_proof"

\* C5: (proof-gated revision) a claim row inserted by POST /claims carries
\* the comparison of the submitted answers with the item's questions; its
\* status is pending_verification for a weak match and awaiting_proof for a
\* partial or strong match, never approved, and contact_revealed is false.
C5_InitialStatus ==
    [][ \A c \in (DOMAIN claims') \ (DOMAIN claims) :
          LET row == claims'[c]
              cmp == row.verification_answers
          IN /\ out'.op = "post_claim"
             /\ cmp = Comparisons(items[row.item_id].verification_questions,
                                  out'.arg.val)
             /\ row.claim_status =
                    StatusOfDecision(Decision(CountCorrect(cmp), Len(cmp)))
             /\ row.claim_status # "approved"
             /\ ~row.contact_revealed ]_vars

\* a strong match (3 of 3) was created awaiting proof, next to a weak match
\* created pending verification
C5_Witness ==
    \E c1 \in ClaimIds, c2 \in ClaimIds :
        /\ CountCorrect(claims[c1].verification_answers) = 3
        /\ claims[c1].claim_status = "awaiting_proof"
        /\ ~claims[c1].contact_revealed
        /\ CountCorrect(claims[c2].verification_answers) = 1
        /\ claims[c2].claim_status = "pending_verification"


\* C6: verify-proof with verified = true changes a claim row only if that
\* row's status is proof_submitted (and then makes it approved).
C6_VerifyOnlyProofSubmitted ==
    [][ \A c \in ClaimIds :
          (out'.op = "verify_proof" /\ out'.id = c
              /\ claims'[c] # claims[c] /\ out'.arg = TRUE)
          => (/\ claims[c].claim_status = "proof_submitted"
              /\ claims'[c].claim_status = "approved") ]_vars

\* C7: a claim becomes completed only from approved.
C7_CompleteOnlyApproved ==
    [][ \A c \in ClaimIds :
          (claims'[c].claim_status = "completed"
              /\ claims[c].claim_status # "completed")
          => claims[c].claim_status = "approved" ]_vars

\* C8: a claim becomes rejected only from pending_verification,
\* awaiting_proof or proof_submitted, and only by reject or by verify-proof
\* with verified = false, called by the item owner.
C8_RejectOnlyOpen ==
    [][ \A c \in ClaimIds :
          (claims'[c].claim_status = "rejected"
              /\ claims[c].claim_status # "rejected")
          => (/\ claims[c].claim_status \in
                    {"pending_verification", "awaiting_proof", "proof_submitted"}
              /\ out'.id = c
              /\ out'.user = claims[c].item_owner_id
              /\ \/ out'.op = "reject"
                 \/ out'.op = "verify_proof" /\ out'.arg = FALSE) ]_vars

\* C9: rejected and completed are terminal: a call of approve, reject,
\* verify-proof, proof submission or complete that finds the claim rejected
\* or completed changes neither the claim's status, nor its contact_revealed
\* flag, nor its item's status.
C9_TerminalStatuses ==
    [][ \A p \in Procs :
          LET c == req[p].id IN
          (/\ out'.p = p
           /\ req[p].op \in {"approve", "reject", "verify_proof", "proof", "complete"}
           /\ req[p].pc # "select_claim"
           /\ c \in ClaimIds
           /\ req[p].loc.claim_status \in {"rejected", "completed"}
           /\ claims[c].claim_status \in {"rejected", "completed"})
          => (/\ claims'[c].claim_status = claims[c].claim_status
              /\ claims'[c].contact_revealed = claims[c].contact_revealed
              /\ items' = items) ]_vars

\* C10: a proof submission succeeds (200) only when the caller is the
\* claimant of the claim and the claim's status is awaiting_proof or
\* proof_submitted, and it then makes the status proof_submitted and stores
\* the reference of the uploaded file; in every other case it does not
\* succeed and leaves the claim's status and proof reference as they were.
C10_ProofSubmission ==
    [][ out'.op = "proof" =>
          LET c == out'.id
              allowed ==
                  /\ c \in ClaimIds
                  /\ claims[c].claimant_id = out'.user
                  /\ claims[c].claim_status \in
                         {"awaiting_proof", "proof_submitted"}
          IN /\ out'.status = 200
                   => /\ allowed
                      /\ out'.arg \in Files
                      /\ claims' = [claims EXCEPT ![c] =
                             [@ EXCEPT !.claim_status = "proof_submitted",
                                       !.aadhar_proof = out'.arg,
                                       !.proof_submitted_at = TRUE]]
             /\ ~allowed => (out'.status # 200 /\ claims' = claims)
             /\ claims' # claims => out'.status = 200 ]_vars

\* the item of a claim row
ItemOfClaim(c) == items[claims[c].item_id]

\* no handler is between two of its statements
Quiescent == \A p \in Procs : req[p].op = "idle"

\* C11: approve and complete write the claim and the item as one unit:
\* once every handler has ended, by a response or by a failure between its
\* two writes, no claim is approved while its item is still active and no
\* claim is completed while its item is not returned.
C11_AtomicWrites ==
    Quiescent =>
        \A c \in ClaimIds :
            /\ claims[c].claim_status = "approved"
                   => ItemOfClaim(c).status # "active"
            /\ claims[c].claim_status = "completed"
                   => ItemOfClaim(c).status = "returned"

\* slot p holds an owner's approval: approve, or verify-proof with verified
IsApproval(r) ==
    \/ r.op = "approve"
    \/ r.op = "verify_proof" /\ r.arg = TRUE

\* C12: the claim write of an approval (approve, or verify-proof with
\* verified = true) makes the claim approved with contact_revealed set, its
\* item write makes the item claimed, and only then is 200 answered; and
\* every claim whose status is approved has contact_revealed = true.
C12_ApprovalReveals ==
    [][ /\ \A c \in DOMAIN claims' :
              claims'[c].claim_status = "approved" => claims'[c].contact_revealed
        /\ \A p \in Procs :
              LET r == req[p] IN
              (out'.p = p /\ out'.status # 500 /\ IsApproval(r))
              => /\ r.pc = "update_claim"
                      => /\ out'.status = 0
                         /\ r.id \in ClaimIds
                              => /\ claims'[r.id].claim_status = "approved"
                                 /\ claims'[r.id].contact_revealed
                 /\ r.pc = "update_item"
                      => /\ out'.status = 200
                         /\ items'[r.loc.item_id].status = "claimed" ]_vars

\* the owner's approve has answered 200: claim approved, contact revealed,
\* item claimed
C12_Witness ==
    /\ out.op = "approve"
    /\ out.status = 200
    /\ out.id \in ClaimIds
    /\ claims[out.id].claim_status = "approved"
    /\ claims[out.id].contact_revealed
    /\ ItemOfClaim(out.id).status = "claimed"

AnswerCountMessage == "Please provide answers to all verification questions"

\* C13: a submission whose verificationAnswers is not an array of as many
\* answers as the item has questions never reaches the comparison and never
\* inserts a claim: its handler ends at the validation, answering 400
\* 'Please provide answers ...' unless the duplicate check before it has
\* already refused the request or the statement failed (500).
C13_AnswerCount ==
    [][ \A p \in Procs :
          LET r == req[p] IN
          (/\ out'.p = p
           /\ r.op = "post_claim"
           /\ r.id \in DOMAIN items
           /\ \/ r.arg.kind # "array"
              \/ Len(r.arg.val) # Len(items[r.id].verification_questions))
          => /\ claims' = claims
             /\ r.pc = "check_existing"
             /\ req'[p].op = "idle"
             /\ out'.body = NoBody
             /\ \/ out'.status = 400 /\ out'.error = AnswerCountMessage
                \/ /\ out'.status = 400 /\ out'.error = DuplicateClaimMessage
                   /\ ExistingClaims(r.id, r.user) # {}
                \/ out'.status = 500 /\ out'.cause = "storage" ]_vars

\* one answer for an item with three questions has been refused
C13_Witness ==
    /\ out.op = "post_claim"
    /\ out.status = 400
    /\ out.error = AnswerCountMessage
    /\ out.arg = [kind |-> "array", n |-> 1]
    /\ Len(items[out.id].verification_questions) = 3
    /\ claims = <<>>

\* the least integer not below num / den
CeilingOf(num, den) ==
    CHOOSE k \in 0..num : k * den >= num /\ (k = 0 \/ (k - 1) * den < num)

\* C14: for total >= 1 questions of which correct_count are right, with
\* required = max(2, ceil(0.8 total)): the decision is the strong match iff
\* correct_count >= required, the partial match iff
\* ceil(0.6 total) <= correct_count < required, and the weak match otherwise;
\* 2 questions require 2, 5 require 4, and 4, 3, 2 right of 5 are strong,
\* partial, weak.
C14_Decision ==
    Returned("decision") =>
        LET total    == call.args.total
            correct  == call.args.correct
            ceil8    == CeilingOf(8 * total, 10)
            ceil6    == CeilingOf(6 * total, 10)
            required == IF ceil8 > 2 THEN ceil8 ELSE 2
        IN /\ RequiredCorrect(total) = required
           /\ call.result = "strong" <=> correct >= required
           /\ call.result = "partial" <=> (ceil6 <= correct /\ correct < required)
           /\ call.result = "weak" <=> (correct < ceil6 /\ correct < required)
           /\ call.result \in {"strong", "partial", "weak"}
           /\ total = 2 => required = 2
           /\ total = 5 => /\ required = 4
                           /\ correct = 4 => call.result = "strong"
                           /\ correct = 3 => call.result = "partial"
                           /\ correct = 2 => call.result = "weak"

\* 3 right of 5 has been decided a partial match
C14_Witness ==
    /\ Returned("decision")
    /\ call.args.total = 5
    /\ call.args.correct = 3
    /\ call.result = "partial"

\* C15: the comparison reports correct iff the stored and the submitted
\* answer are equal after lower-casing and trimming, or both are then
\* longer than 3 characters and their similarity is above 0.8; with a
\* normalized string of 3 characters or fewer a mismatch is incorrect.
C15_Comparator ==
    Returned("isCorrect") =>
        LET correctAnswer == trim(toLowerCase(call.args.stored))
            userAnswer    == trim(toLowerCase(OrEmpty(call.args.submitted)))
            sim           == calculateSimilarity(correctAnswer, userAnswer)
        IN /\ call.result <=>
                  \/ correctAnswer = userAnswer
                  \/ /\ Len(correctAnswer) > 3
                     /\ Len(userAnswer) > 3
                     /\ 10 * sim[1] > 8 * sim[2]
           /\ (correctAnswer # userAnswer
                  /\ (Len(correctAnswer) <= 3 \/ Len(userAnswer) <= 3))
              => call.result = FALSE

\* a six-letter answer with one letter wrong, typed in capitals, has been
\* accepted on its similarity of 5/6
C15_Witness ==
    /\ Returned("isCorrect")
    /\ call.result = TRUE
    /\ call.args.stored = <<"a", "a", "b", "a", "b", "b">>
    /\ call.args.submitted = <<"A", "A", "B", "A", "B", "A">>

\* the least element of a set of numbers
Least(S) == CHOOSE x \in S : \A y \in S : x <= y

\* the unit-cost Levenshtein distance by its recurrence
RECURSIVE Levenshtein(_, _)
Levenshtein(a, b) ==
    IF a = <<>> THEN Len(b)
    ELSE IF b = <<>> THEN Len(a)
    ELSE Least({Levenshtein(Tail(a), b) + 1,
                Levenshtein(a, Tail(b)) + 1,
                Levenshtein(Tail(a), Tail(b))
                    + (IF Head(a) = Head(b) THEN 0 ELSE 1)})

\* C16: calculateSimilarity(a, b) is (max_len - L(a, b)) / max_len with L
\* the unit-cost Levenshtein distance and max_len the greater length; it
\* lies in [0, 1], is the same for (b, a), and is 1 when a = b.
C16_Similarity ==
    Returned("calculateSimilarity") =>
        LET a      == call.args.str1
            b      == call.args.str2
            maxLen == IF Len(a) >= Len(b) THEN Len(a) ELSE Len(b)
            sim    == call.result
            rev    == calculateSimilarity(b, a)
        IN /\ sim[2] > 0
           /\ maxLen > 0 => sim[1] * maxLen = (maxLen - Levenshtein(a, b)) * sim[2]
           /\ 0 <= sim[1] /\ sim[1] <= sim[2]
           /\ sim[1] * rev[2] = rev[1] * sim[2]
           /\ a = b => sim[1] = sim[2]

\* "ab" against "bab": distance 1 of 3, similarity 2/3
C16_Witness ==
    /\ Returned("calculateSimilarity")
    /\ call.args.str1 = <<"a", "b">>
    /\ call.args.str2 = <<"b", "a", "b">>
    /\ call.result = <<2, 3>>

RequiredMessage == "Item ID and verification answers are required"
UnavailableMessage == "Item not found or not available for claiming"
SelfClaimMessage == "You cannot claim your own item"

\* C17: a submission by the reporter of the item ends at its first
\* statement and creates no claim: it is answered with the self-claim error
\* (400 'You cannot claim your own item') whenever the body is complete and
\* the item is on offer, the two checks made before it, and the item lookup
\* does not fail (500); and no stored claim has its claimant equal to its
\* item owner.
C17_SelfClaim ==
    [][ /\ (/\ FirstStep
            /\ out'.op = "post_claim"
            /\ out'.id \in DOMAIN items
            /\ items[out'.id].reporter_id = out'.user)
           => /\ req'[out'.p].op = "idle"
              /\ claims' = claims
              /\ out'.body = NoBody
              /\ IF out'.arg.kind = "missing"
                 THEN out'.status = 400 /\ out'.error = RequiredMessage
                 ELSE IF StorageFailure(out')
                 THEN TRUE
                 ELSE IF items[out'.id].status # "active"
                 THEN out'.status = 404 /\ out'.error = UnavailableMessage
                 ELSE out'.status = 400 /\ out'.error = SelfClaimMessage
        /\ \A c \in DOMAIN claims' :
              /\ claims'[c].claimant_id # claims'[c].item_owner_id
              /\ claims'[c].claimant_id # items'[claims'[c].item_id].reporter_id
      ]_vars

\* the reporter of the item on offer has been refused with the self-claim
\* error
C17_Witness ==
    /\ out.op = "post_claim"
    /\ out.id \in DOMAIN items
    /\ items[out.id].reporter_id = out.user
    /\ items[out.id].status = "active"
    /\ out.status = 400
    /\ out.error = SelfClaimMessage

\* C18: a submission with a complete body for an item that does not exist
\* or whose status is not active (claimed, returned, closed) is answered 404
\* (500 when the item lookup itself fails) and changes nothing; a submission goes past the item lookup only if the
\* item exists and is active then, and a claim row is inserted only by such
\* a submission, for that item.
C18_ItemActive ==
    [][ /\ (FirstStep /\ out'.op = "post_claim")
           => /\ (/\ out'.arg.kind # "missing"
                  /\ \/ out'.id \notin DOMAIN items
                     \/ items[out'.id].status # "active")
                 => /\ \/ out'.status = 404 /\ out'.error = UnavailableMessage
                       \/ StorageFailure(out')
                    /\ out'.body = NoBody
                    /\ req'[out'.p].op = "idle"
              /\ req'[out'.p].op # "idle"
                 => /\ out'.id \in DOMAIN items
                    /\ items[out'.id].status = "active"
              /\ claims' = claims
              /\ items' = items
        /\ \A c \in (DOMAIN claims') \ (DOMAIN claims) :
              /\ ~FirstStep
              /\ req[out'.p].op = "post_claim"
              /\ claims'[c].item_id = req[out'.p].id
              /\ claims'[c].item_id \in DOMAIN items ]_vars

\* submissions for the closed item, for a missing item and for the item
\* once it is claimed: the last has been answered 404, and the only claim
\* there is was created while the item was active
C18_Witness ==
    /\ out.op = "post_claim"
    /\ out.status = 404
    /\ out.arg.kind = "array"
    /\ out.id \in DOMAIN items
    /\ items[out.id].status = "claimed"
    /\ Cardinality(ClaimIds) = 1

\* C19: complete and the contact lookup called by a user who is neither the
\* claimant nor the item owner of the claim are refused at the lookup (404
\* access denied, or 500 when the lookup itself fails): no contact is
\* returned, the handler ends there, and the claims and the items are left
\* as they were.
C19_ThirdParty ==
    [][ (/\ FirstStep
         /\ out'.op \in {"complete", "contact"}
         /\ out'.id \in ClaimIds
         /\ out'.user # claims[out'.id].claimant_id
         /\ out'.user # claims[out'.id].item_owner_id)
        => (/\ \/ IsAuthorizationError(out') /\ out'.status = 404
               \/ StorageFailure(out')
            /\ out'.body = NoBody
            /\ req'[out'.p].op = "idle"
            /\ claims' = claims
            /\ items' = items) ]_vars

\* a third user asked for the contact of an approved claim and was refused
C19_Witness ==
    /\ out.op = "contact"
    /\ out.id \in ClaimIds
    /\ claims[out.id].claim_status = "approved"
    /\ out.user # claims[out.id].claimant_id
    /\ out.user # claims[out.id].item_owner_id
    /\ out.status = 404
    /\ out.body = NoBody

\* a bearer token is present, verifies, names an existing user, that user
\* is verified and the token's e-mail is the stored one
CredentialsHold(a) ==
    LET token == TokenOf(a.header) IN
    /\ token # NoToken
    /\ token.kind = "valid"
    /\ a.users[token.userId] # NoUser
    /\ a.users[token.userId].is_verified
    /\ a.users[token.userId].email = token.email

\* the failures the credentials of a request call for
FailuresCalledFor(a) ==
    LET token == TokenOf(a.header)
        valid == token # NoToken /\ token.kind = "valid"
        found == valid /\ a.users[token.userId] # NoUser
    IN {f \in {"missing token", "expired", "malformed", "user not found",
               "account unverified", "token/user mismatch"} :
          \/ f = "missing token" /\ token = NoToken
          \/ f = "expired" /\ token # NoToken /\ token.kind = "expired"
          \/ f = "malformed" /\ token # NoToken /\ token.kind = "malformed"
          \/ f = "user not found" /\ valid /\ ~found
          \/ f = "account unverified"
                /\ found /\ ~a.users[token.userId].is_verified
          \/ f = "token/user mismatch"
                /\ found /\ a.users[token.userId].email # token.email}

\* the failure a response of the middleware reports
FailureReported(res) ==
    CASE res.status = 401 /\ res.error = "Access token required"
             -> "missing token"
      [] res.status = 403 /\ res.code = "TOKEN_EXPIRED" -> "expired"
      [] res.status = 403 /\ res.code = "INVALID_TOKEN" -> "malformed"
      [] res.status = 401 /\ res.code = "USER_NOT_FOUND" -> "user not found"
      [] res.status = 401 /\ res.code = "ACCOUNT_NOT_VERIFIED"
             -> "account unverified"
      [] res.status = 401 /\ res.code = "TOKEN_MISMATCH"
             -> "token/user mismatch"
      [] res.status = 500 /\ res.code = "VERIFICATION_FAILED"
             -> "verification failed"
      [] OTHER -> "none"

\* C20: the middleware calls next() only when a bearer token is present,
\* verifies, names an existing user, that user is verified and the token's
\* e-mail equals the stored one, and always then if the user lookup
\* returns.  Otherwise the handler is never run, req.user is not set and the
\* response reports one of missing token, expired, malformed, user not
\* found, account unverified, token/user mismatch, a failure the
\* credentials call for; a user lookup that throws is answered with the
\* generic 500.
C20_CredentialVerification ==
    /\ Returned("authenticateToken") =>
          LET a   == call.args
              res == call.result
          IN /\ res.next => CredentialsHold(a)
             /\ (CredentialsHold(a) /\ a.lookup = "returns") => res.next
             /\ res.next
                  => /\ res.status = 0
                     /\ res.user.user_id = TokenOf(a.header).userId
                     /\ res.user.email = TokenOf(a.header).email
                     /\ res.user.is_verified
             /\ ~res.next
                  => /\ res.user = NoUser
                     /\ \/ FailureReported(res) \in FailuresCalledFor(a)
                        \/ /\ FailureReported(res) = "verification failed"
                           /\ a.lookup = "throws"
                           /\ TokenOf(a.header) # NoToken
                           /\ TokenOf(a.header).kind = "valid"
    /\ call.fn = "handler" =>
          /\ CredentialsHold(call.args)
          /\ call.args.lookup = "returns"
          /\ call.user.user_id = TokenOf(call.args.header).userId

\* a valid token of a verified user whose stored e-mail has changed since
\* has been refused
C20_Witness ==
    /\ Returned("authenticateToken")
    /\ ~call.result.next
    /\ call.result.code = "TOKEN_MISMATCH"
    /\ TokenOf(call.args.header).kind = "valid"
    /\ call.args.users[TokenOf(call.args.header).userId].is_verified

\* ------------------------------------------------------------------------
\* Uploaded files, error codes, winners and the contact flag
\* ------------------------------------------------------------------------

\* the stored files that no row refers to and no request in flight carries
OrphanFiles ==
    {f \in disk :
        /\ \A c \in ClaimIds : claims[c].aadhar_proof # f
        /\ \A u \in DOMAIN users :
               users[u] = NoUser \/ users[u].student_id_card # f
        /\ \A p \in Procs : req[p].op # "proof" \/ req[p].arg # f
        /\ \A p \in Procs : req[p].op # "signup" \/ req[p].arg.file # f}

\* C21: once a request has failed, every file in the documents directory is
\* referred to by a row (or belongs to a request still being served): the
\* failed request's upload was deleted.
C21_FailedUploadDeleted ==
    out.status >= 400 => OrphanFiles = {}

\* the routes of the claims API
ClaimsOps ==
    {"post_claim", "proof", "verify_proof", "approve", "reject", "complete",
     "contact"}

\* C26: a claims operation refused by one of its guards (a 4xx response)
\* carries an error code next to its message.
C26_GuardFailureCode ==
    (out.op \in ClaimsOps /\ out.status \in {400, 403, 404}) => out.code # ""

\* the claims on item i that were approved or completed
Winners(i) ==
    {c \in ClaimIds : claims[c].item_id = i
                      /\ claims[c].claim_status \in {"approved", "completed"}}

\* C28: no item has two claims that are approved or completed.
C28_OneWinner ==
    \A i \in DOMAIN items : Cardinality(Winners(i)) <= 1

\* C30 as stated: contact_revealed is true exactly when the claim's status
\* is approved.
C30_RevealedIffApproved ==
    \A c \in ClaimIds :
        claims[c].contact_revealed <=> claims[c].claim_status = "approved"

\* the caller of the latest response is the claimant or the item owner of
\* the claim it names
ByParty ==
    /\ out.id \in ClaimIds
    /\ out.user \in {claims[out.id].item_owner_id, claims[out.id].claimant_id}

\* C30 amended: an approved claim has contact_revealed set, and no write
\* clears the flag: it stays set when the claim is completed or rejected
\* afterwards.  The contact lookup, unless its statement fails (500),
\* answers 200 exactly when the caller is a party of a claim whose status
\* is approved, hence only for a claim with contact_revealed set; a party
\* of a claim that is not approved is refused (403), also when the claim's
\* contact_revealed is still set.
C30_ApprovedIsRevealed ==
    /\ [](\A c \in ClaimIds :
             claims[c].claim_status = "approved" => claims[c].contact_revealed)
    /\ [][\A c \in ClaimIds :
             (c \in DOMAIN claims' /\ claims[c].contact_revealed)
                 => claims'[c].contact_revealed]_vars
    /\ []((out.op = "contact" /\ ~StorageFailure(out)) =>
             /\ out.status = 200 <=>
                    /\ ByParty
                    /\ claims[out.id].claim_status = "approved"
                    /\ claims[out.id].contact_revealed
             /\ (ByParty /\ claims[out.id].claim_status # "approved")
                    => (out.status = 403 /\ out.error = NotApprovedMessage
                        /\ out.body = NoBody))

\* a party of a claim that was approved and then completed has been refused
\* the contact, the claim's contact_revealed still being set
C30_Witness ==
    /\ out.op = "contact" /\ out.status = 403
    /\ ByParty
    /\ claims[out.id].claim_status = "completed"
    /\ claims[out.id].contact_revealed

\* ------------------------------------------------------------------------
\* Accounts
\* ------------------------------------------------------------------------

\* the rows of users
Accounts == {u \in DOMAIN users : users[u] # NoUser}

\* no two rows of users share an e-mail or a student id
UniqueAccounts ==
    \A u \in Accounts, v \in Accounts :
        u # v => /\ users[u].email # users[v].email
                 /\ users[u].student_id # users[v].student_id

\* a statement of a signup whose e-mail or student id is registered by then:
\* the handler's existence check, or its INSERT
SignupCollides(p) ==
    /\ out'.op = "signup" /\ out'.p = p
    /\ req[p].op = "signup" /\ req[p].pc \in {"check_existing", "insert"}
    /\ \E u \in Accounts : \/ users[u].email = out'.arg.email
                           \/ users[u].student_id = out'.arg.studentId

\* C22: no two users share an e-mail or a student id, also when two signups
\* run concurrently and both pass the existence check; a signup that finds
\* its e-mail or student id registered, at the check or at the INSERT,
\* creates no user and answers 400 'Student ID or email already registered'
\* (500 if the statement itself fails).
C22_UniqueAccounts ==
    /\ []UniqueAccounts
    /\ [][\A p \in Procs :
            SignupCollides(p) =>
                /\ users' = users
                /\ \/ out'.status = 400 /\ out'.error = RegisteredMessage
                   \/ out'.status = 500]_vars

\* the loser of two concurrent signups: it passed the existence check and
\* its INSERT was rejected by the unique key
C22_Witness ==
    /\ out.op = "signup" /\ out.status = 400
    /\ out.error = RegisteredMessage /\ out.cause = "ER_DUP_ENTRY"
    /\ \E u \in Accounts : u \notin DOMAIN InitUsers
                           /\ users[u].email = out.arg.email

\* ------------------------------------------------------------------------
\* Claim counters
\* ------------------------------------------------------------------------

\* C27: after every insert, status update and delete on claims, each item's
\* total_claims_count is the number of claims on it and its
\* pending_claims_count the number of those with status
\* pending_verification.
C27_ClaimCounts ==
    \A i \in DOMAIN items :
        /\ items[i].total_claims_count = TotalClaims(i)
        /\ items[i].pending_claims_count = PendingClaims(i)

\* ------------------------------------------------------------------------
\* Deleting users and items, and what the other routes leave alone
\* ------------------------------------------------------------------------

\* every item's reporter and every claim's item, claimant and owner exist
ReferencesExist ==
    /\ \A i \in DOMAIN items : items[i].reporter_id \in Accounts
    /\ \A c \in ClaimIds :
           /\ claims[c].item_id \in DOMAIN items
           /\ claims[c].claimant_id \in Accounts
           /\ claims[c].item_owner_id \in Accounts

\* C23: deleting a user deletes the items the user reported and the claims
\* on them, so every item's reporter and every claim's item, claimant and
\* owner exist; a user row disappears only in DELETE /api/admin/users/:id
\* called by an administrator, and never the row of an administrator.
C23_UserDeletion ==
    /\ []ReferencesExist
    /\ [][\A u \in Accounts :
            users'[u] = NoUser =>
                /\ out'.op = "admin_delete_user" /\ out'.id = u
                /\ out'.status = 200
                /\ users[out'.user].role = "admin"
                /\ users[u].role # "admin"]_vars

\* user 1, who had posted item 1 and received a claim on it, has been
\* deleted: the item and the claim, which a request still being served had
\* found by its lookup, are gone with the row
C23_Witness ==
    /\ out.op = "admin_delete_user" /\ out.status = 200 /\ out.id = 1
    /\ users[1] = NoUser
    /\ 1 \notin DOMAIN items
    /\ claims = <<>>
    /\ \E q \in Procs :
           /\ req[q].pc = "update_claim" /\ req[q].id = 1
           /\ req[q].loc.item_id = 1

\* the routes open to students
StudentOps == ClaimsOps \cup {"item_post", "item_put", "item_delete"}

\* C24: no operation of a student (the claims routes, item creation, item
\* update, item delete by the owner) removes a row of claims.
C24_ClaimsKept ==
    [][out'.op \in StudentOps => \A c \in ClaimIds : c \in DOMAIN claims']_vars

\* C25: the verification questions and answers of an item never change
\* after its creation: no route (item update by the owner, the claims
\* routes, the admin routes) writes items.verification_questions.
C25_QuestionsFixed ==
    [][\A i \in DOMAIN items :
          i \in DOMAIN items' =>
              items'[i].verification_questions = items[i].verification_questions]_vars

\* the owner's update went through with other questions in its body, and
\* the item still has the questions it was created with
C25_Witness ==
    /\ out.op = "item_put" /\ out.status = 200
    /\ out.arg.verification_questions # Questions1
    /\ out.id \in DOMAIN items
    /\ items[out.id].status = out.arg.status
    /\ items[out.id].verification_questions = Questions1

\* the request served by this step has just arrived
Arrival == nreq' = nreq + 1

\* C29: while a user's row is deleted or its verification flag is false,
\* every request that arrives with the user's token is answered by
\* authenticateToken (401 USER_NOT_FOUND, 401 ACCOUNT_NOT_VERIFIED, or 500
\* when the lookup itself fails): no handler starts for it and no table
\* changes.  A user whose row exists with the flag set, again or still, is
\* let through to the handler unless the lookup fails.
C29_RevokedToken ==
    /\ [][(Arrival /\ out'.op # "signup" /\ out'.user \in DOMAIN users
        /\ (users[out'.user] = NoUser \/ ~users[out'.user].is_verified)) =>
           /\ \/ /\ out'.status = 401
                 /\ out'.code = IF users[out'.user] = NoUser
                                THEN "USER_NOT_FOUND"
                                ELSE "ACCOUNT_NOT_VERIFIED"
              \/ out'.status = 500 /\ out'.code = "VERIFICATION_FAILED"
           /\ UNCHANGED <<users, items, claims, next_claim_id, next_item_id, next_user_id, disk, uploads, req>>]_vars
    /\ [][(Arrival /\ out'.op = "any" /\ users[out'.user] # NoUser
            /\ users[out'.user].is_verified) =>
           \/ /\ out'.status = 0
              /\ req'[out'.p] = Request("authenticated", out'.user, 0, NULL)
           \/ out'.status = 500 /\ out'.code = "VERIFICATION_FAILED"]_vars

\* a request with the token of a deleted user has been refused
C29_Witness ==
    /\ out.status = 401 /\ out.code = "USER_NOT_FOUND"
    /\ out.user \in DOMAIN users /\ users[out.user] = NoUser
    /\ \E u \in Accounts : ~users[u].is_verified

====
